---- MODULE Spec2Model ----
(***************************************************************************)
(* A model of the e-mail validation engine of studiocloud/hfjm:            *)
(*   - validateEmail, the staged pipeline (server/validators/email.js);    *)
(*   - the /validate/batch and /validate/bulk handlers with                *)
(*     validateEmailWithRetry (server/routes/validation.js).               *)
(*                                                                         *)
(* Characters of an address are kept as character classes, the only thing  *)
(* the format regex looks at:                                              *)
(*   "L" a letter, "D" a digit, "." a dot, "-" a hyphen,                   *)
(*   "_" one of _ % +, "@" the at sign, " " any other character.           *)
(* JavaScript's undefined and null are the strings "undefined" and "null". *)
(***************************************************************************)
EXTENDS Integers, Sequences, FiniteSets, TLC

VARIABLES
    \* ---- validateEmail (one call) ----
    vpc,            \* position in validateEmail
    email,          \* the argument
    result,         \* the result object being filled
    mxRecords,      \* const mxRecords (<< >> stands for false)
    mxIdx,          \* position of the for..of loop over mxRecords
    providerConfig, \* const providerConfig
    smtpSuccess,    \* let smtpSuccess
    lastError,      \* let lastError
    trace,          \* history: the stages run, in order
    verifyLog,      \* history: what the verifier returned, per MX contacted
    serverLog,      \* history: per MX contacted, the server accepts any local part
    mxLog,          \* history: the MX record of each call of the verifier, in order
    twin,           \* a second run of the same call, alike but for the SPF lookup
    \* ---- POST /validate/batch (one request) ----
    bpc,            \* position in the handler
    emails,         \* req.body.emails
    bI,             \* loop variable i
    bItems,         \* per item of the current batch: its validateEmailWithRetry promise
    bResults,       \* const results
    bOutcome,       \* history: how each input's promise settled
    \* ---- POST /validate/bulk (one request) ----
    kpc,            \* position in the handler
    rows,           \* the records of the uploaded CSV, in order
    kTotal,         \* let total
    kProcessed,     \* let processed
    kNext,          \* index of the next record the parser yields
    kBatch,         \* let batch (row numbers stand for the e-mail strings)
    kItems,         \* per row: its validateEmailWithRetry promise
    kResults,       \* const results
    kStream,        \* what res.write has written, in order
    kEnded,         \* res.end() was called
    kConnected,     \* the client is still connected
    kLateStarts,    \* history: batches started after the client had gone
    kSlept,         \* history: the delays of BATCH_DELAY slept so far
    \* ---- the proxy pool and the calls of verifyMailbox using it ----
    proxies,        \* this.proxies
    currentIndex,   \* this.currentIndex
    now,            \* what Date.now() returns
    dialogs,        \* per call of verifyMailbox: its position and locals
    pHeld,          \* history: per call, its acquire is not yet paired
    pDecs,          \* history: per call, release/mark_failure calls since its acquire
    pUse,           \* history: per proxy, when it was last handed out
    pResets,        \* history: the number of global resets
    \* ---- one answer to RCPT TO ----
    rpc,            \* position
    rResponse,      \* the response the server sends
    rReturn,        \* what verifyMailbox returns for it
    \* ---- one call of verifyMailbox (or of its wrapper) and the server it talks to ----
    sPc,            \* position in verifyMailbox
    sConfig,        \* the argument config
    sRetry,         \* let retryCount of verifyMailbox
    sWrap,          \* let retryCount of verifyMailboxWithRetry
    sSocket,        \* the socket of the current attempt
    sWire,          \* the lines the server has sent and the socket has not yet emitted
    sLog,           \* history: per command of this connection, the reply sent and the line read
    sOk,            \* RCPT TO was answered in this attempt
    sRet,           \* what the call returns
    sDials,         \* history: calls of createProxyConnection so far
    sSleeps         \* history: the delays slept so far, in order

vvars == <<vpc, email, result, mxRecords, mxIdx, providerConfig, smtpSuccess,
           lastError, trace, verifyLog, serverLog, mxLog, twin>>
bvars == <<bpc, emails, bI, bItems, bResults, bOutcome>>
kvars == <<kpc, rows, kTotal, kProcessed, kNext, kBatch, kItems, kResults,
           kStream, kEnded, kConnected, kLateStarts, kSlept>>
pvars == <<proxies, currentIndex, now, dialogs, pHeld, pDecs, pUse, pResets>>
rvars == <<rpc, rResponse, rReturn>>
svars == <<sPc, sConfig, sRetry, sWrap, sSocket, sWire, sLog, sOk, sRet,
           sDials, sSleeps>>
vars == <<vvars, bvars, kvars, pvars, rvars, svars>>

----------------------------------------------------------------------------
(* Bounds of the model *)

\* most MX records a domain advertises
MaxMX == 2
\* most e-mails in one batch request
MaxEmails == 6
\* most records in one uploaded CSV
MaxRows == 6
\* most proxies in the pool
MaxProxies == 2
\* most calls of verifyMailbox under way at once
MaxDialogs == 2
\* how long the clock is followed, in seconds
MaxSeconds == 32
\* most continuation lines in a reply to EHLO
MaxContinuations == 2

----------------------------------------------------------------------------
(* Small helpers *)

Rep(n, c) == [i \in 1..n |-> c]

Min(a, b) == IF a < b THEN a ELSE b

----------------------------------------------------------------------------
(* validators/email.js: validateEmailFormat *)

IsAlnum(c) == c \in {"L", "D"}

IsLocalChar(c) == c \in {"L", "D", ".", "_", "-"}

IsLabelChar(c) == c \in {"L", "D", "-"}

\* [a-zA-Z0-9](?:[a-zA-Z0-9._%+-]{0,61}[a-zA-Z0-9])?
LocalMatches(s) ==
    /\ Len(s) >= 1
    /\ IsAlnum(s[1])
    /\ \/ Len(s) = 1
       \/ /\ Len(s) - 2 <= 61
          /\ IsAlnum(s[Len(s)])
          /\ \A i \in 2..(Len(s) - 1) : IsLocalChar(s[i])

\* [a-zA-Z0-9](?:[a-zA-Z0-9-]*[a-zA-Z0-9])?
LabelMatches(s) ==
    /\ Len(s) >= 1
    /\ IsAlnum(s[1])
    /\ IsAlnum(s[Len(s)])
    /\ \A i \in 1..Len(s) : IsLabelChar(s[i])

\* (?:\.[a-zA-Z]{2,})+ : every dot is followed by at least two letters
TldsMatch(s) ==
    /\ Len(s) >= 1
    /\ s[1] = "."
    /\ \A i \in 1..Len(s) : s[i] \in {".", "L"}
    /\ \A i \in 1..Len(s) :
          s[i] = "." => (i + 2 <= Len(s) /\ s[i + 1] = "L" /\ s[i + 2] = "L")

DomainMatches(d) ==
    LET dots == {i \in 1..Len(d) : d[i] = "."}
    IN  /\ dots # {}
        /\ LET first == CHOOSE i \in dots : \A j \in dots : i <= j
           IN  /\ LabelMatches(SubSeq(d, 1, first - 1))
               /\ TldsMatch(SubSeq(d, first, Len(d)))

AtSigns(s) == {i \in 1..Len(s) : s[i] = "@"}

FirstAt(s) ==
    IF AtSigns(s) = {} THEN Len(s) + 1
    ELSE CHOOSE i \in AtSigns(s) : \A j \in AtSigns(s) : i <= j

\* const [localPart, domain] = email.split('@'): the first two pieces
LocalPart(s) == SubSeq(s, 1, FirstAt(s) - 1)

\* domain is undefined when the string holds no at sign
HasDomain(s) == AtSigns(s) # {}

DomainPart(s) ==
    LET rest == SubSeq(s, FirstAt(s) + 1, Len(s))
    IN  SubSeq(rest, 1, FirstAt(rest) - 1)

validateEmailFormat(e) ==
    IF ~e.isString \/ e.chars = << >> THEN FALSE
    ELSE /\ Cardinality(AtSigns(e.chars)) = 1
         /\ LocalMatches(LocalPart(e.chars))
         /\ DomainMatches(DomainPart(e.chars))

----------------------------------------------------------------------------
(* The arguments validateEmail is called with *)

Str(chars) == [isString |-> TRUE, chars |-> chars]

ShortDomain == <<"@", "L", "D", "-", "L", ".", "L", "L">>

LongDomain(n) == <<"@">> \o Rep(n - 3, "L") \o <<".", "L", "L">>

Inputs ==
    { [isString |-> FALSE, chars |-> << >>],            \* a number, null, an object
      Str(<< >>),                                        \* ""
      Str(<<"L", "L", "L", "-", "L", "L", "-", "L", "L", "L", "L", "L">>), \* not-an-email
      Str(<<"L", "@", "L">>),                            \* no top-level domain
      Str(<<"L", "@", "L", ".", "L">>),                  \* one-letter top-level domain
      Str(<<".", "L", "@", "L", ".", "L", "L">>),        \* leading dot
      Str(<<"L", " ", "L", "@", "L", ".", "L", "L">>),   \* a blank in the local part
      Str(<<"L", "@", "L", "@", "L", ".", "L", "L">>),   \* two at signs
      Str(<<"L">> \o ShortDomain),
      Str(<<"L", "_", ".", "D">> \o ShortDomain),
      Str(Rep(63, "L") \o ShortDomain),
      Str(Rep(64, "L") \o ShortDomain),
      Str(Rep(65, "L") \o ShortDomain),
      Str(<<"L">> \o LongDomain(255)),
      Str(<<"L">> \o LongDomain(256)) }

----------------------------------------------------------------------------
(* validators/email.js: checkDNS, checkMX, checkSPF *)

\* results.some(result => result.status === 'fulfilled') over A, AAAA, CNAME
checkDNS(a, aaaa, cname) == a \/ aaaa \/ cname

MxPriorities == {10, 20}

\* what dns.resolveMx can answer: the records in the order DNS gave them,
\* or a rejection
MxAnswers ==
    { [ok |-> TRUE,
       records |-> [i \in 1..n |-> [exchange |-> i, priority |-> f[i]]]] :
        n \in 0..MaxMX, f \in [1..MaxMX -> MxPriorities] }
    \cup { [ok |-> FALSE, records |-> << >>] }

\* r goes after every record whose priority is not larger: the sort is stable
InsertByPriority(r, s) ==
    LET k == Cardinality({i \in 1..Len(s) : s[i].priority <= r.priority})
    IN  SubSeq(s, 1, k) \o <<r>> \o SubSeq(s, k + 1, Len(s))

RECURSIVE SortByPriority(_)
SortByPriority(s) ==
    IF s = << >> THEN << >>
    ELSE InsertByPriority(s[Len(s)], SortByPriority(SubSeq(s, 1, Len(s) - 1)))

\* variant: the records are taken as DNS gave them
checkMX_Unsorted(answer) ==
    IF ~answer.ok THEN << >> ELSE answer.records

\* << >> stands for the value false
checkMX(answer) ==
    IF ~answer.ok THEN << >>
    ELSE IF Len(answer.records) > 0 THEN SortByPriority(answer.records) ELSE << >>

\* what dns.resolveTxt can answer (flattened), or a rejection
TxtAnswers ==
    { [ok |-> TRUE, records |-> r] :
        r \in { << >>, <<"other">>, <<"v=spf1 a">>, <<"other", "v=spf1 b", "v=spf1 a">> } }
    \cup { [ok |-> FALSE, records |-> << >>] }

\* record.startsWith('v=spf1')
IsSpf(txt) == txt \in {"v=spf1 a", "v=spf1 b"}

checkSPF(answer) ==
    IF ~answer.ok THEN [exists |-> FALSE, record |-> "null"]
    ELSE LET hits == {i \in 1..Len(answer.records) : IsSpf(answer.records[i])}
         IN  IF hits = {} THEN [exists |-> FALSE, record |-> "undefined"]
             ELSE [exists |-> TRUE,
                   record |-> answer.records[CHOOSE i \in hits : \A j \in hits : i <= j]]

----------------------------------------------------------------------------
(* validators/providers.js: PROVIDERS, getProviderConfig *)

ProviderNames == {"gmail.com", "outlook.com", "yahoo.com", "generic"}

\* the configuration returned when the domain matches the named entry
\* (or none: "generic"); only the fields validateEmail and the verifier read
getProviderConfig(provider) ==
    [provider |-> provider,
     requireTLS |-> provider \in {"gmail.com", "yahoo.com"},
     rejectCatchAll |-> TRUE,
     timeout |-> CASE provider = "gmail.com" -> 15000
                   [] provider = "outlook.com" -> 30000
                   [] provider = "yahoo.com" -> 12000
                   [] OTHER -> 10000,
     retryAttempts |-> IF provider = "outlook.com" THEN 3 ELSE 2,
     customValidation |-> provider = "outlook.com"]

----------------------------------------------------------------------------
(* validators/smtp.js: what verifyMailbox and verifyMailboxWithRetry return *)

\* the three-digit codes a server answers RCPT TO with
RcptCodes == {250, 421, 451, 550}

\* code.startsWith('2') || code === '451' || code === '452'
MailboxExists(code) == code \div 100 = 2 \/ code = 451 \/ code = 452

\* a completed dialog; the object has no isCatchAll key
VerifyCompleted(code) ==
    [success |-> TRUE, mailboxExists |-> MailboxExists(code), code |-> code]

\* every attempt failed
VerifyFailed ==
    [success |-> FALSE, mailboxExists |-> FALSE,
     error |-> "Verification failed after 3 attempts"]

VerifyReturns == {VerifyCompleted(c) : c \in RcptCodes} \cup {VerifyFailed}

\* reading a key the object may not have
Get(obj, key) == IF key \in DOMAIN obj THEN obj[key] ELSE "undefined"

\* truthiness of a value kept as a string
Truthy(x) == x \notin {"false", "undefined", "null", ""}

----------------------------------------------------------------------------
(* validators/email.js: validateEmail *)

NoChecks ==
    [format |-> FALSE, dns |-> FALSE, mx |-> FALSE, spf |-> FALSE,
     smtp |-> FALSE, mailbox |-> FALSE, catchAll |-> "false"]

NewResult(e) ==
    [email |-> e, valid |-> FALSE, checks |-> NoChecks,
     details |-> [mxRecords |-> << >>, spfRecord |-> "null", smtpResponse |-> "null"],
     reason |-> ""]

NoConfig == getProviderConfig("generic")

\* the second run before it parts from the first, at the SPF lookup
NoTwin ==
    [pc |-> "off", result |-> NewResult(Str(<< >>)), mxIdx |-> 1,
     smtpSuccess |-> FALSE, lastError |-> "null", trace |-> << >>]

VInit ==
    /\ vpc = "idle"
    /\ email = Str(<< >>)
    /\ result = NewResult(Str(<< >>))
    /\ mxRecords = << >>
    /\ mxIdx = 1
    /\ providerConfig = NoConfig
    /\ smtpSuccess = FALSE
    /\ lastError = "null"
    /\ trace = << >>
    /\ verifyLog = << >>
    /\ serverLog = << >>
    /\ mxLog = << >>
    /\ twin = NoTwin

\* the call: const result = {...}
Call(e) ==
    /\ vpc = "idle"
    /\ vpc' = "format"
    /\ email' = e
    /\ result' = NewResult(e)
    /\ UNCHANGED <<mxRecords, mxIdx, providerConfig, smtpSuccess, lastError,
                   trace, verifyLog, serverLog, mxLog, twin>>
    /\ UNCHANGED <<bvars, kvars, pvars, rvars, svars>>

\* mutant: a failed gate does not return
AfterGate_NoReturn(passed, next) == next

\* where validateEmail goes after a gating stage: on, or return result
AfterGate(passed, next) == IF passed THEN next ELSE "done"

\* mutant: the format stage returns without a reason
StageFormat_NoReason ==
    /\ vpc = "format"
    /\ trace' = Append(trace, "format")
    /\ LET ok == validateEmailFormat(email)
       IN  /\ result' = [result EXCEPT !.checks.format = ok,
                           !.reason = @]
           /\ vpc' = AfterGate(ok, "length")
    /\ UNCHANGED <<email, mxRecords, mxIdx, providerConfig, smtpSuccess,
                   lastError, verifyLog, serverLog, mxLog, twin>>
    /\ UNCHANGED <<bvars, kvars, pvars, rvars, svars>>

\* Step 1: Format Check
StageFormat ==
    /\ vpc = "format"
    /\ trace' = Append(trace, "format")
    /\ LET ok == validateEmailFormat(email)
       IN  /\ result' = [result EXCEPT !.checks.format = ok,
                           !.reason = IF ok THEN @ ELSE "Invalid email format"]
           /\ vpc' = AfterGate(ok, "length")
    /\ UNCHANGED <<email, mxRecords, mxIdx, providerConfig, smtpSuccess,
                   lastError, verifyLog, serverLog, mxLog, twin>>
    /\ UNCHANGED <<bvars, kvars, pvars, rvars, svars>>

\* the length checks: the reason they return with, "" when both pass, and
\* "throw" when email.split or domain.length throws (caught at the end of
\* validateEmail)
LengthReason(e) ==
    IF ~e.isString THEN "throw"
    ELSE IF Len(LocalPart(e.chars)) > 64 THEN "Local part exceeds maximum length"
    ELSE IF ~HasDomain(e.chars) THEN "throw"
    ELSE IF Len(DomainPart(e.chars)) > 255 THEN "Domain exceeds maximum length"
    ELSE ""

StageLength ==
    /\ vpc = "length"
    /\ trace' = Append(trace, "length")
    /\ LET why == LengthReason(email)
       IN  /\ result' = [result EXCEPT !.reason =
                            IF why = "throw" THEN "Validation error: TypeError"
                            ELSE why]
           /\ vpc' = AfterGate(why = "", "dns")
    /\ UNCHANGED <<email, mxRecords, mxIdx, providerConfig, smtpSuccess,
                   lastError, verifyLog, serverLog, mxLog, twin>>
    /\ UNCHANGED <<bvars, kvars, pvars, rvars, svars>>

\* Step 2: DNS Check
StageDNS ==
    /\ vpc = "dns"
    /\ trace' = Append(trace, "dns")
    /\ \E a \in BOOLEAN, aaaa \in BOOLEAN, cname \in BOOLEAN :
          LET ok == checkDNS(a, aaaa, cname)
          IN  /\ result' = [result EXCEPT !.checks.dns = ok,
                              !.reason = IF ok THEN @ ELSE "Domain does not exist"]
              /\ vpc' = AfterGate(ok, "mx")
    /\ UNCHANGED <<email, mxRecords, mxIdx, providerConfig, smtpSuccess,
                   lastError, verifyLog, serverLog, mxLog, twin>>
    /\ UNCHANGED <<bvars, kvars, pvars, rvars, svars>>

\* Step 3: MX Records Check
StageMX ==
    /\ vpc = "mx"
    /\ trace' = Append(trace, "mx")
    /\ \E answer \in MxAnswers :
          LET recs == checkMX(answer)
              ok == recs # << >>
          IN  /\ mxRecords' = recs
              /\ result' = [result EXCEPT !.checks.mx = ok,
                              !.details.mxRecords = recs,
                              !.reason = IF ok THEN @
                                         ELSE "No mail servers found for domain"]
              /\ vpc' = AfterGate(ok, "spf")
    /\ UNCHANGED <<email, mxIdx, providerConfig, smtpSuccess, lastError, verifyLog, serverLog, mxLog, twin>>
    /\ UNCHANGED <<bvars, kvars, pvars, rvars, svars>>

\* result.checks.spf = spfResult.exists; result.details.spfRecord = ...
SpfRecorded(res, spfResult) ==
    [res EXCEPT !.checks.spf = spfResult.exists,
                !.details.spfRecord = spfResult.record]

\* variant: an absent SPF record ends the validation
StageSPF_Gating ==
    /\ vpc = "spf"
    /\ trace' = Append(trace, "spf")
    /\ \E answer \in TxtAnswers, other \in TxtAnswers :
          /\ result' = SpfRecorded(result, checkSPF(answer))
          /\ vpc' = AfterGate(checkSPF(answer).exists, "provider")
          /\ twin' = [pc |-> AfterGate(checkSPF(other).exists, "provider"),
                      result |-> SpfRecorded(result, checkSPF(other)),
                      mxIdx |-> mxIdx, smtpSuccess |-> smtpSuccess,
                      lastError |-> lastError, trace |-> Append(trace, "spf")]
    /\ UNCHANGED <<email, mxRecords, mxIdx, providerConfig, smtpSuccess,
                   lastError, verifyLog, serverLog, mxLog>>
    /\ UNCHANGED <<bvars, kvars, pvars, rvars, svars>>

\* Step 4: SPF Check; the second run gets an answer of its own
StageSPF ==
    /\ vpc = "spf"
    /\ trace' = Append(trace, "spf")
    /\ \E answer \in TxtAnswers, other \in TxtAnswers :
          /\ result' = SpfRecorded(result, checkSPF(answer))
          /\ twin' = [pc |-> "provider",
                      result |-> SpfRecorded(result, checkSPF(other)),
                      mxIdx |-> mxIdx, smtpSuccess |-> smtpSuccess,
                      lastError |-> lastError, trace |-> Append(trace, "spf")]
    /\ vpc' = "provider"
    /\ UNCHANGED <<email, mxRecords, mxIdx, providerConfig, smtpSuccess,
                   lastError, verifyLog, serverLog, mxLog>>
    /\ UNCHANGED <<bvars, kvars, pvars, rvars, svars>>

\* Step 5: Get provider configuration (the domain, hence the configuration,
\* is the same in both runs)
StageProvider ==
    /\ vpc = "provider"
    /\ trace' = Append(trace, "provider")
    /\ \E p \in ProviderNames : providerConfig' = getProviderConfig(p)
    /\ mxIdx' = 1
    /\ vpc' = "smtp"
    /\ twin' = IF twin.pc = "provider"
               THEN [twin EXCEPT !.pc = "smtp", !.mxIdx = 1,
                                 !.trace = Append(@, "provider")]
               ELSE twin
    /\ UNCHANGED <<email, result, mxRecords, smtpSuccess, lastError, verifyLog, serverLog, mxLog>>
    /\ UNCHANGED <<bvars, kvars, pvars, rvars, svars>>

\* mutant: the loop stops at any completed dialog
LoopBreaks_AnySuccess(verifyResult, config) == verifyResult.success

\* the for..of loop stops here: a rejected catch-all, or a mailbox that exists
LoopBreaks(verifyResult, config) ==
    /\ verifyResult.success
    /\ \/ Truthy(Get(verifyResult, "isCatchAll")) /\ config.rejectCatchAll
       \/ verifyResult.mailboxExists

\* if (verifyResult.success) { ...the checks and details...; the catch-all
\* branch }
SmtpRecorded(res, verifyResult, config) ==
    LET catchAll == Get(verifyResult, "isCatchAll")
        rejected == verifyResult.success /\ Truthy(catchAll)
                    /\ config.rejectCatchAll
    IN  IF verifyResult.success
        THEN [res EXCEPT
                !.checks.smtp = TRUE,
                !.checks.mailbox = verifyResult.mailboxExists,
                !.checks.catchAll = catchAll,
                !.details.smtpResponse = verifyResult,
                !.valid = IF rejected THEN FALSE ELSE @,
                !.reason = IF rejected THEN "Catch-all domain detected"
                           ELSE @]
        ELSE res

\* Step 6: SMTP and Mailbox Check, one turn of the loop over mxRecords; the
\* second run meets the same verifier
StageSMTP ==
    /\ vpc = "smtp"
    /\ mxIdx <= Len(mxRecords)
    /\ trace' = Append(trace, "smtp")
    /\ \E verifyResult \in VerifyReturns, acceptsAll \in BOOLEAN :
          LET catchAll == Get(verifyResult, "isCatchAll")
              rejected == verifyResult.success /\ Truthy(catchAll)
                          /\ providerConfig.rejectCatchAll
              stop == LoopBreaks(verifyResult, providerConfig)
          IN  /\ (acceptsAll /\ verifyResult.success) => verifyResult.code \div 100 = 2
              /\ verifyLog' = Append(verifyLog, verifyResult)
              /\ serverLog' = Append(serverLog, acceptsAll)
              /\ mxLog' = Append(mxLog, mxRecords[mxIdx])
              /\ result' = SmtpRecorded(result, verifyResult, providerConfig)
              /\ smtpSuccess' = (smtpSuccess \/ (stop /\ ~rejected))
              /\ lastError' = IF stop THEN lastError
                              ELSE Get(verifyResult, "error")
              /\ mxIdx' = mxIdx + 1
              /\ vpc' = IF stop \/ mxIdx = Len(mxRecords) THEN "final" ELSE "smtp"
              /\ twin' =
                    IF twin.pc = "smtp"
                    THEN [twin EXCEPT
                            !.result = SmtpRecorded(@, verifyResult, providerConfig),
                            !.smtpSuccess = (@ \/ (stop /\ ~rejected)),
                            !.lastError = IF stop THEN @
                                          ELSE Get(verifyResult, "error"),
                            !.mxIdx = @ + 1,
                            !.pc = IF stop \/ twin.mxIdx = Len(mxRecords)
                                   THEN "final" ELSE "smtp",
                            !.trace = Append(@, "smtp")]
                    ELSE twin
    /\ UNCHANGED <<email, mxRecords, providerConfig>>
    /\ UNCHANGED <<bvars, kvars, pvars, rvars, svars>>

\* variant: the reason is lastError, whatever it is
FinalStatus_NoDefault(success, checks, err) ==
    IF success THEN [valid |-> TRUE, reason |-> "Email is valid"]
    ELSE IF checks.dns /\ checks.mx THEN [valid |-> FALSE, reason |-> err]
    ELSE [valid |-> FALSE, reason |-> "Domain validation failed"]

\* Determine final validation status
FinalStatus(success, checks, err) ==
    IF success THEN [valid |-> TRUE, reason |-> "Email is valid"]
    ELSE IF checks.dns /\ checks.mx
         THEN [valid |-> FALSE,
               reason |-> IF Truthy(err) THEN err ELSE "Failed to verify mailbox"]
         ELSE [valid |-> FALSE, reason |-> "Domain validation failed"]

StageFinal ==
    /\ vpc = "final"
    /\ LET final == FinalStatus(smtpSuccess, result.checks, lastError)
       IN  result' = [result EXCEPT !.valid = final.valid, !.reason = final.reason]
    /\ vpc' = "done"
    /\ twin' = IF twin.pc = "final"
               THEN LET final == FinalStatus(twin.smtpSuccess, twin.result.checks,
                                             twin.lastError)
                    IN  [twin EXCEPT !.result.valid = final.valid,
                                     !.result.reason = final.reason,
                                     !.pc = "done"]
               ELSE twin
    /\ UNCHANGED <<email, mxRecords, mxIdx, providerConfig, smtpSuccess,
                   lastError, trace, verifyLog, serverLog, mxLog>>
    /\ UNCHANGED <<bvars, kvars, pvars, rvars, svars>>

----------------------------------------------------------------------------
(* routes/validation.js: validateEmailWithRetry *)

BATCH_SIZE == 5

MAX_RETRIES == 3

\* results validateEmail can fulfil with for the address id: a valid one and
\* an invalid one
ValidateEmailResults(id) ==
    { [email |-> id, valid |-> TRUE, reason |-> "Email is valid",
       checks |-> [format |-> TRUE, dns |-> TRUE, mx |-> TRUE, spf |-> TRUE,
                   smtp |-> TRUE, mailbox |-> TRUE, catchAll |-> "undefined"]],
      [email |-> id, valid |-> FALSE, reason |-> "Invalid email format",
       checks |-> NoChecks] }

\* how one call of validateEmail(id) can settle: with a result, or with a
\* rejection, which validateEmailWithRetry and both handlers provide for
AttemptOutcomes(id) ==
    { [rejects |-> FALSE, value |-> r] : r \in ValidateEmailResults(id) }
    \cup { [rejects |-> TRUE, value |-> "validateEmail failed"] }

\* a validateEmailWithRetry(email) promise: pending, fulfilled with a
\* result, or rejected with an error
Pending(id) == [status |-> "pending", email |-> id]

Fulfilled(value) == [status |-> "fulfilled", value |-> value]

Rejected(message) == [status |-> "rejected", message |-> message]

\* how validateEmailWithRetry(email, retryCount) settles when the successive
\* calls of validateEmail settle as in outcomes: return the result; catch
\* (error): call again while retryCount < MAX_RETRIES, else throw error
RECURSIVE validateEmailWithRetry(_, _)
validateEmailWithRetry(outcomes, retryCount) ==
    IF ~Head(outcomes).rejects THEN Fulfilled(Head(outcomes).value)
    ELSE IF retryCount < MAX_RETRIES
         THEN validateEmailWithRetry(Tail(outcomes), retryCount + 1)
         ELSE Rejected(Head(outcomes).value)

\* the runs of calls of validateEmail(id) one validateEmailWithRetry can see:
\* up to MAX_RETRIES + 1 calls, all but the last rejecting
AttemptRuns(id) ==
    { run \in { [i \in 1..n |->
                   IF i < n THEN [rejects |-> TRUE, value |-> "validateEmail failed"]
                   ELSE last] :
                n \in 1..(MAX_RETRIES + 1), last \in AttemptOutcomes(id) } :
        run[Len(run)].rejects => Len(run) = MAX_RETRIES + 1 }

Settled(promise) == promise.status # "pending"

----------------------------------------------------------------------------
(* routes/validation.js: router.post('/validate/batch') *)

\* the entry pushed for a rejected promise
Placeholder(message) ==
    [valid |-> FALSE, reason |-> message,
     checks |-> [format |-> FALSE, dns |-> FALSE, mx |-> FALSE, spf |-> FALSE,
                 smtp |-> FALSE, mailbox |-> FALSE]]

\* result.status === 'fulfilled' ? result.value : { valid: false, ... }
SettledEntry(promise) ==
    IF promise.status = "fulfilled" THEN promise.value
    ELSE Placeholder(promise.message)

\* mutant: the slice stops one element early
Slice_Short(array, from, to) == SubSeq(array, from + 1, Min(to - 1, Len(array)))

\* emails.slice(i, i + batchSize), i counted from 0
Slice(array, from, to) == SubSeq(array, from + 1, Min(to, Len(array)))

\* request bodies: emails is an array of addresses (numbered), or not an array
BatchBodies ==
    { [isArray |-> TRUE, emails |-> [i \in 1..n |-> i]] : n \in 0..MaxEmails }
    \cup { [isArray |-> FALSE, emails |-> << >>] }

BIdle ==
    /\ bpc = "off" /\ emails = << >> /\ bI = 0 /\ bItems = << >>
    /\ bResults = << >> /\ bOutcome = << >>

BInit ==
    /\ bpc = "idle" /\ emails = << >> /\ bI = 0 /\ bItems = << >>
    /\ bResults = << >> /\ bOutcome = << >>

\* the request arrives: 400 unless emails is an array
BatchRequest(body) ==
    /\ bpc = "idle"
    /\ emails' = body.emails
    /\ bpc' = IF body.isArray THEN "loop" ELSE "done400"
    /\ bOutcome' = [i \in 1..Len(body.emails) |-> Pending(body.emails[i])]
    /\ UNCHANGED <<bI, bItems, bResults>>
    /\ UNCHANGED <<vvars, kvars, pvars, rvars, svars>>

\* for (i < emails.length): start the promises of the next batch
BatchStart ==
    /\ bpc = "loop"
    /\ bI < Len(emails)
    /\ LET batch == Slice(emails, bI, bI + BATCH_SIZE)
       IN  bItems' = [k \in 1..Len(batch) |-> Pending(batch[k])]
    /\ bpc' = "await"
    /\ UNCHANGED <<emails, bI, bResults, bOutcome>>
    /\ UNCHANGED <<vvars, kvars, pvars, rvars, svars>>

\* the k-th promise of the batch settles
BatchItemSettles(k) ==
    /\ bpc = "await"
    /\ k \in 1..Len(bItems)
    /\ ~Settled(bItems[k])
    /\ \E run \in AttemptRuns(bItems[k].email) :
          LET after == validateEmailWithRetry(run, 0)
          IN  /\ bItems' = [bItems EXCEPT ![k] = after]
              /\ bOutcome' = [bOutcome EXCEPT ![bI + k] = after]
    /\ UNCHANGED <<bpc, emails, bI, bResults>>
    /\ UNCHANGED <<vvars, kvars, pvars, rvars, svars>>

\* Promise.allSettled resolves: push the batch's entries, then delay or go on
BatchSettled ==
    /\ bpc = "await"
    /\ \A k \in 1..Len(bItems) : Settled(bItems[k])
    /\ bResults' = bResults \o [k \in 1..Len(bItems) |-> SettledEntry(bItems[k])]
    /\ IF bI + BATCH_SIZE < Len(emails)
       THEN bpc' = "sleep" /\ bI' = bI
       ELSE bpc' = "loop" /\ bI' = bI + BATCH_SIZE
    /\ bItems' = << >>
    /\ UNCHANGED <<emails, bOutcome>>
    /\ UNCHANGED <<vvars, kvars, pvars, rvars, svars>>

\* BATCH_DELAY has passed
BatchDelayDone ==
    /\ bpc = "sleep"
    /\ bpc' = "loop"
    /\ bI' = bI + BATCH_SIZE
    /\ UNCHANGED <<emails, bItems, bResults, bOutcome>>
    /\ UNCHANGED <<vvars, kvars, pvars, rvars, svars>>

\* the loop is over: res.json(results)
BatchRespond ==
    /\ bpc = "loop"
    /\ ~(bI < Len(emails))
    /\ bpc' = "done"
    /\ UNCHANGED <<emails, bI, bItems, bResults, bOutcome>>
    /\ UNCHANGED <<vvars, kvars, pvars, rvars, svars>>

BNext ==
    \/ \E body \in BatchBodies : BatchRequest(body)
    \/ BatchStart
    \/ \E k \in 1..BATCH_SIZE : BatchItemSettles(k)
    \/ BatchSettled
    \/ BatchDelayDone
    \/ BatchRespond

----------------------------------------------------------------------------
(* routes/validation.js: router.post('/validate/bulk') *)

\* uploads: no file, or a CSV whose records do (TRUE) or do not (FALSE) carry
\* a value in the email/Email/EMAIL column
BulkUploads ==
    { [hasFile |-> TRUE, rows |-> r] :
        r \in UNION { [1..n -> BOOLEAN] : n \in 0..MaxRows } }
    \cup { [hasFile |-> FALSE, rows |-> << >>] }

NoPromise == [status |-> "none"]

KIdle ==
    /\ kpc = "off" /\ rows = << >> /\ kTotal = 0 /\ kProcessed = 0 /\ kNext = 1
    /\ kBatch = << >> /\ kItems = << >> /\ kResults = << >> /\ kStream = << >>
    /\ kEnded = FALSE /\ kConnected = TRUE /\ kLateStarts = 0 /\ kSlept = 0

KInit ==
    /\ kpc = "idle" /\ rows = << >> /\ kTotal = 0 /\ kProcessed = 0 /\ kNext = 1
    /\ kBatch = << >> /\ kItems = << >> /\ kResults = << >> /\ kStream = << >>
    /\ kEnded = FALSE /\ kConnected = TRUE /\ kLateStarts = 0 /\ kSlept = 0

\* (processed / total) * 100, kept as the fraction num / den
Progress(processed, total) == [num |-> processed * 100, den |-> total]

\* mutant: processed grows by a full batch
Processed_FullBatch(processed, batch) == processed + BATCH_SIZE

\* processed += batch.length
Processed(processed, batch) == processed + Len(batch)

\* batch.length === BATCH_SIZE || processed + batch.length === total
BatchIsDue(batch, processed, total) ==
    Len(batch) = BATCH_SIZE \/ processed + Len(batch) = total

\* variant: the progress event carries the count only
ProgressEvent_NoResults(processed, total, results) ==
    [type |-> "progress", progress |-> Progress(processed, total), results |-> << >>]

ProgressEvent(processed, total, results) ==
    [type |-> "progress", progress |-> Progress(processed, total), results |-> results]

\* the request arrives: 400 without a file
BulkRequest(upload) ==
    /\ kpc = "idle"
    /\ rows' = upload.rows
    /\ kItems' = [i \in 1..Len(upload.rows) |-> NoPromise]
    /\ kpc' = IF upload.hasFile THEN "count" ELSE "done400"
    /\ UNCHANGED <<kTotal, kProcessed, kNext, kBatch, kResults, kStream, kEnded,
                   kConnected, kLateStarts, kSlept>>
    /\ UNCHANGED <<vvars, bvars, pvars, rvars, svars>>

\* First pass: count total rows
BulkCounted ==
    /\ kpc = "count"
    /\ kTotal' = Len(rows)
    /\ kpc' = "read"
    /\ UNCHANGED <<rows, kProcessed, kNext, kBatch, kItems, kResults, kStream,
                   kEnded, kConnected, kLateStarts, kSlept>>
    /\ UNCHANGED <<vvars, bvars, pvars, rvars, svars>>

\* either pass over the file fails (the stream or the parser errors):
\* catch (error): write the error event and end
BulkParserError ==
    /\ kpc \in {"count", "read"}
    /\ kStream' = Append(kStream, [type |-> "error", error |-> "Failed to process CSV file"])
    /\ kEnded' = TRUE
    /\ kpc' = "done"
    /\ UNCHANGED <<rows, kTotal, kProcessed, kNext, kBatch, kItems, kResults,
                   kConnected, kLateStarts, kSlept>>
    /\ UNCHANGED <<vvars, bvars, pvars, rvars, svars>>

\* for await (const record of parser): the next record; a record with an
\* e-mail joins the batch, and a batch that is due has its promises started
BulkRecord ==
    /\ kpc = "read"
    /\ kNext <= Len(rows)
    /\ kNext' = kNext + 1
    /\ LET batch == IF rows[kNext] THEN Append(kBatch, kNext) ELSE kBatch
           due == rows[kNext] /\ BatchIsDue(batch, kProcessed, kTotal)
       IN  /\ kBatch' = batch
           /\ kpc' = IF due THEN "await" ELSE "read"
           /\ kItems' = IF due
                        THEN [i \in 1..Len(rows) |->
                                IF \E k \in 1..Len(batch) : batch[k] = i
                                THEN Pending(i) ELSE kItems[i]]
                        ELSE kItems
           /\ kLateStarts' = IF due /\ ~kConnected THEN kLateStarts + 1
                             ELSE kLateStarts
    /\ UNCHANGED <<rows, kTotal, kProcessed, kResults, kStream, kEnded, kConnected, kSlept>>
    /\ UNCHANGED <<vvars, bvars, pvars, rvars, svars>>

BatchAllFulfilled ==
    \A k \in 1..Len(kBatch) : kItems[kBatch[k]].status = "fulfilled"

BatchSomeRejected ==
    \E k \in 1..Len(kBatch) : kItems[kBatch[k]].status = "rejected"

\* the continuation of await Promise.all(...) is ready to run; it runs before
\* any other callback
AwaitIsOver == kpc = "await" /\ (BatchAllFulfilled \/ BatchSomeRejected)

\* the promise of row r settles
BulkItemSettles(r) ==
    /\ r \in 1..Len(rows)
    /\ kItems[r].status = "pending"
    /\ ~AwaitIsOver
    /\ \E run \in AttemptRuns(kItems[r].email) :
          kItems' = [kItems EXCEPT ![r] = validateEmailWithRetry(run, 0)]
    /\ UNCHANGED <<kpc, rows, kTotal, kProcessed, kNext, kBatch, kResults,
                   kStream, kEnded, kConnected, kLateStarts, kSlept>>
    /\ UNCHANGED <<vvars, bvars, pvars, rvars, svars>>

\* Promise.all fulfilled: push the results, write progress, delay if rows remain
BulkBatchFulfilled ==
    /\ kpc = "await"
    /\ BatchAllFulfilled
    /\ LET batchResults == [k \in 1..Len(kBatch) |-> kItems[kBatch[k]].value]
           processed == Processed(kProcessed, kBatch)
       IN  /\ kResults' = kResults \o batchResults
           /\ kProcessed' = processed
           /\ kStream' = Append(kStream, ProgressEvent(processed, kTotal, batchResults))
           /\ IF processed < kTotal
              THEN kpc' = "sleep" /\ kBatch' = kBatch
              ELSE kpc' = "read" /\ kBatch' = << >>
    /\ UNCHANGED <<rows, kTotal, kNext, kItems, kEnded, kConnected, kLateStarts, kSlept>>
    /\ UNCHANGED <<vvars, bvars, pvars, rvars, svars>>

\* BATCH_DELAY has passed: batch = []
BulkDelayDone ==
    /\ kpc = "sleep"
    /\ kBatch' = << >>
    /\ kpc' = "read"
    /\ kSlept' = kSlept + 1
    /\ UNCHANGED <<rows, kTotal, kProcessed, kNext, kItems, kResults, kStream,
                   kEnded, kConnected, kLateStarts>>
    /\ UNCHANGED <<vvars, bvars, pvars, rvars, svars>>

\* Promise.all rejected: catch (error): placeholders for the whole batch
BulkBatchRejected ==
    /\ kpc = "await"
    /\ BatchSomeRejected
    /\ LET errorResults == [k \in 1..Len(kBatch) |-> Placeholder("Batch processing error")]
           processed == Processed(kProcessed, kBatch)
       IN  /\ kResults' = kResults \o errorResults
           /\ kProcessed' = processed
           /\ kStream' = Append(kStream, ProgressEvent(processed, kTotal, errorResults))
    /\ kBatch' = << >>
    /\ kpc' = "read"
    /\ UNCHANGED <<rows, kTotal, kNext, kItems, kEnded, kConnected, kLateStarts, kSlept>>
    /\ UNCHANGED <<vvars, bvars, pvars, rvars, svars>>

\* mutant: an exception after the complete event reaches the catch block
BulkComplete_ThenThrows ==
    /\ kpc = "read"
    /\ kNext > Len(rows)
    /\ kStream' = kStream \o <<[type |-> "complete", results |-> kResults],
                               [type |-> "error", error |-> "Failed to process CSV file"]>>
    /\ kEnded' = TRUE
    /\ kpc' = "done"
    /\ UNCHANGED <<rows, kTotal, kProcessed, kNext, kBatch, kItems, kResults,
                   kConnected, kLateStarts, kSlept>>
    /\ UNCHANGED <<vvars, bvars, pvars, rvars, svars>>

\* the parser is exhausted: write the complete event and end
BulkComplete ==
    /\ kpc = "read"
    /\ kNext > Len(rows)
    /\ kStream' = Append(kStream, [type |-> "complete", results |-> kResults])
    /\ kEnded' = TRUE
    /\ kpc' = "done"
    /\ UNCHANGED <<rows, kTotal, kProcessed, kNext, kBatch, kItems, kResults,
                   kConnected, kLateStarts, kSlept>>
    /\ UNCHANGED <<vvars, bvars, pvars, rvars, svars>>

\* the client goes away while the request is being handled; the handler
\* registers no listener for it
ClientDisconnect ==
    /\ kpc \in {"count", "read", "await", "sleep"}
    /\ kConnected
    /\ kConnected' = FALSE
    /\ UNCHANGED <<kpc, rows, kTotal, kProcessed, kNext, kBatch, kItems, kResults,
                   kStream, kEnded, kLateStarts, kSlept>>
    /\ UNCHANGED <<vvars, bvars, pvars, rvars, svars>>

KNext ==
    \/ \E upload \in BulkUploads : BulkRequest(upload)
    \/ BulkCounted
    \/ BulkParserError
    \/ BulkRecord
    \/ \E r \in 1..MaxRows : BulkItemSettles(r)
    \/ BulkBatchFulfilled
    \/ BulkDelayDone
    \/ BulkBatchRejected
    \/ BulkComplete
    \/ ClientDisconnect

----------------------------------------------------------------------------
(* lib/proxyManager.js: the proxy pool *)

MAX_FAILURES == 3

MAX_CONNECTIONS == 3

COOLDOWN_PERIOD == 30000

PROXY_TIMEOUT == 10000

\* Date.now() counts from 1970: when the process starts the clock is past any
\* cooldown counted from lastUsed = 0
StartTime == COOLDOWN_PERIOD

Max(a, b) == IF a >= b THEN a ELSE b

\* loadProxies: an entry as loaded (host, port and credentials play no part)
NewProxy == [failures |-> 0, lastUsed |-> 0, connections |-> 0]

\* the pools loadProxies can leave behind: any number of entries, none included
LoadedPools == {[i \in 1..n |-> NewProxy] : n \in 0..MaxProxies}

\* variant: the cooldown is not looked at
Eligible_NoCooldown(proxy, t) ==
    ~(proxy.failures >= MAX_FAILURES \/ proxy.connections >= MAX_CONNECTIONS)

\* variant: only the connections are looked at
Eligible_ConnectionsOnly(proxy, t) == ~(proxy.connections >= MAX_CONNECTIONS)

\* the negation of the test that makes getNextProxy skip an entry
Eligible(proxy, t) ==
    ~(\/ proxy.failures >= MAX_FAILURES
      \/ proxy.connections >= MAX_CONNECTIONS
      \/ t - proxy.lastUsed < COOLDOWN_PERIOD)

\* variant: the entry handed out is not stamped
Acquired_NoStamp(pool, i, t) == [pool EXCEPT ![i].connections = @ + 1]

\* proxy.lastUsed = now; proxy.connections++
Acquired(pool, i, t) ==
    [pool EXCEPT ![i].lastUsed = t, ![i].connections = @ + 1]

\* the while loop of getNextProxy; index is this.currentIndex (from 0),
\* proxy = 0 stands for falling out of the loop
RECURSIVE ScanPool(_, _, _, _)
ScanPool(pool, index, attempts, t) ==
    IF attempts >= Len(pool)
    THEN [proxy |-> 0, proxies |-> pool, currentIndex |-> index,
          reset |-> FALSE]
    ELSE LET next == (index + 1) % Len(pool)
         IN  IF ~Eligible(pool[index + 1], t)
             THEN ScanPool(pool, next, attempts + 1, t)
             ELSE [proxy |-> index + 1,
                   proxies |-> Acquired(pool, index + 1, t),
                   currentIndex |-> next, reset |-> FALSE]

\* this.proxies.every(p => p.failures >= MAX_FAILURES)
AllFailed(pool) == \A i \in 1..Len(pool) : pool[i].failures >= MAX_FAILURES

\* the forEach of the reset
ResetAll(pool) ==
    [i \in 1..Len(pool) |->
        [pool[i] EXCEPT !.failures = 0, !.connections = 0, !.lastUsed = 0]]

\* getNextProxy: the proxy returned (0 for null), the pool and the cursor it
\* leaves, and whether it reset the pool on the way
RECURSIVE getNextProxy(_, _, _)
getNextProxy(pool, index, t) ==
    IF Len(pool) = 0
    THEN [proxy |-> 0, proxies |-> pool, currentIndex |-> index, reset |-> FALSE]
    ELSE LET scan == ScanPool(pool, index, 0, t)
         IN  IF scan.proxy # 0 THEN scan
             ELSE IF AllFailed(pool)
             THEN [getNextProxy(ResetAll(pool), scan.currentIndex, t)
                     EXCEPT !.reset = TRUE]
             ELSE scan

markProxyFailure(pool, p) ==
    IF p = 0 THEN pool
    ELSE [pool EXCEPT ![p].failures = @ + 1,
                      ![p].connections = Max(0, @ - 1)]

markProxySuccess(pool, p) ==
    IF p = 0 THEN pool ELSE [pool EXCEPT ![p].failures = 0]

\* variant: the counter is not clamped
releaseProxy_NoClamp(pool, p) ==
    IF p = 0 THEN pool ELSE [pool EXCEPT ![p].connections = @ - 1]

\* variant: the slot is not given back
releaseProxy_Keeps(pool, p) == pool

releaseProxy(pool, p) ==
    IF p = 0 THEN pool ELSE [pool EXCEPT ![p].connections = Max(0, @ - 1)]

----------------------------------------------------------------------------
(* validators/smtp.js: verifyMailbox over the proxy pool *)

SMTP_MAX_RETRIES == 3

SMTP_RETRY_DELAY == 2000

DigitChars == <<"0", "1", "2", "3", "4", "5", "6", "7", "8", "9">>

DigitValue(c) == CHOOSE n \in 0..9 : DigitChars[n + 1] = c

\* a response as the server means it: a three-digit code, then nothing, or a
\* separator (" " or "-") and a text
Response(d1, d2, d3, tail) == [code |-> <<d1, d2, d3>>, tail |-> tail]

\* the line readResponse resolves with, character by character
Wire(response) ==
    [i \in 1..3 |-> DigitChars[response.code[i] + 1]] \o response.tail

\* String.prototype.substring(from, to) and substring(from)
Substring(s, from, to) == SubSeq(s, from + 1, Min(to, Len(s)))

SubstringFrom(s, from) == SubSeq(s, from + 1, Len(s))

\* parseInt(s, 10) of a string of digits
RECURSIVE parseInt(_)
parseInt(s) ==
    IF s = << >> THEN 0
    ELSE parseInt(SubSeq(s, 1, Len(s) - 1)) * 10 + DigitValue(s[Len(s)])

\* variant: only 2xx counts
RcptExists_Only2xx(code) == code[1] = "2"

\* code.startsWith('2') || code === '451' || code === '452'
RcptExists(code) ==
    \/ code[1] = "2"
    \/ code = <<"4", "5", "1">>
    \/ code = <<"4", "5", "2">>

\* what verifyMailbox returns once RCPT TO has been answered
RcptReturn(rcptResponse) ==
    LET code == Substring(rcptResponse, 0, 3)
    IN  [success |-> TRUE,
         mailboxExists |-> RcptExists(code),
         code |-> parseInt(code),
         message |-> SubstringFrom(rcptResponse, 4)]

\* the answers to RCPT TO the dialogs of the pool model meet
DialogResponses == {Response(2, 5, 0, <<" ", "O", "K">>)}

NoReturn == [pending |-> TRUE]

\* a call of verifyMailbox not yet made
NewDialog ==
    [pc |-> "idle", proxy |-> 0, retryCount |-> 0, socket |-> "none",
     timer |-> 0, ok |-> FALSE, ret |-> NoReturn]

Dialogs == 1..MaxDialogs

PIdle ==
    /\ proxies = << >> /\ currentIndex = 0 /\ now = StartTime
    /\ dialogs = [d \in Dialogs |-> [NewDialog EXCEPT !.pc = "off"]]
    /\ pHeld = [d \in Dialogs |-> FALSE]
    /\ pDecs = [d \in Dialogs |-> 0]
    /\ pUse = << >>
    /\ pResets = 0

\* never handed out
NoUse ==
    [used |-> FALSE, at |-> 0, resetSince |-> FALSE,
     again |-> FALSE, gap |-> 0, afterReset |-> FALSE]

\* history: proxy p is handed out at t; again when it had been handed out
\* before, gap the time since then, afterReset when the pool was reset between
\* the two
Use(use, t, reset) ==
    [used |-> TRUE, at |-> t, resetSince |-> FALSE,
     again |-> use.used,
     gap |-> IF use.used THEN t - use.at ELSE 0,
     afterReset |-> use.used /\ (use.resetSince \/ reset)]

PInit ==
    /\ proxies \in LoadedPools
    /\ currentIndex = 0
    /\ now = StartTime
    /\ dialogs = [d \in Dialogs |-> NewDialog]
    /\ pHeld = [d \in Dialogs |-> FALSE]
    /\ pDecs = [d \in Dialogs |-> 0]
    /\ pUse = [p \in 1..Len(proxies) |-> NoUse]
    /\ pResets = 0

\* the end of the catch block: retryCount++, then the delay or the final return
AfterFailure(dlg, t) ==
    LET n == dlg.retryCount + 1
    IN  IF n < SMTP_MAX_RETRIES
        THEN [dlg EXCEPT !.retryCount = n, !.pc = "sleep",
                         !.timer = t + SMTP_RETRY_DELAY * n]
        ELSE [dlg EXCEPT !.retryCount = n, !.pc = "done", !.ret = VerifyFailed]

\* history: a release or mark_failure was called for the proxy dialog d holds
Paired(d) ==
    /\ pHeld' = [pHeld EXCEPT ![d] = FALSE]
    /\ pDecs' = [pDecs EXCEPT ![d] = @ + 1]

\* currentProxy = proxyManager.getNextProxy(); with null the attempt throws
\* 'No available proxies' and the catch block runs with nothing to mark or
\* close; with a proxy, createProxyConnection starts a SOCKS connection that
\* times out after PROXY_TIMEOUT
Attempt(d) ==
    /\ LET got == getNextProxy(proxies, currentIndex, now)
           dlg == [dialogs[d] EXCEPT !.proxy = got.proxy]
       IN  /\ proxies' = got.proxies
           /\ currentIndex' = got.currentIndex
           /\ dialogs' = [dialogs EXCEPT ![d] =
                            IF got.proxy = 0 THEN AfterFailure(dlg, now)
                            ELSE [dlg EXCEPT !.pc = "connect",
                                             !.timer = now + PROXY_TIMEOUT]]
           /\ pHeld' = [pHeld EXCEPT ![d] = got.proxy # 0]
           /\ pDecs' = [pDecs EXCEPT ![d] = 0]
           /\ pUse' = [p \in 1..Len(proxies) |->
                         IF p = got.proxy THEN Use(pUse[p], now, got.reset)
                         ELSE IF got.reset THEN [pUse[p] EXCEPT !.resetSince = TRUE]
                         ELSE pUse[p]]
           /\ pResets' = IF got.reset THEN pResets + 1 ELSE pResets
    /\ UNCHANGED now
    /\ UNCHANGED <<vvars, bvars, kvars, rvars, svars>>

\* a call of verifyMailbox is made and begins its first attempt (the calls
\* are numbered as they are made)
DialogCall(d) ==
    /\ dialogs[d].pc = "idle"
    /\ \A e \in 1..(d - 1) : dialogs[e].pc # "idle"
    /\ Attempt(d)

\* the delay before the next attempt is over and the attempt begins; the
\* close event of a socket destroyed before the delay began has been delivered
DialogWakes(d) ==
    /\ dialogs[d].pc = "sleep"
    /\ now >= dialogs[d].timer
    /\ dialogs[d].socket # "closing"
    /\ Attempt(d)

\* createProxyConnection: SocksClient.createConnection fails; its catch marks
\* the proxy and rethrows, and the catch of verifyMailbox marks it again
DialogConnectFails(d) ==
    /\ dialogs[d].pc = "connect"
    /\ dialogs[d].proxy # 0
    /\ proxies' = markProxyFailure(markProxyFailure(proxies, dialogs[d].proxy),
                                   dialogs[d].proxy)
    /\ dialogs' = [dialogs EXCEPT ![d] = AfterFailure([dialogs[d] EXCEPT !.timer = 0], now)]
    /\ pHeld' = [pHeld EXCEPT ![d] = FALSE]
    /\ pDecs' = [pDecs EXCEPT ![d] = @ + 2]
    /\ UNCHANGED <<currentIndex, now, pUse, pResets>>
    /\ UNCHANGED <<vvars, bvars, kvars, rvars, svars>>

\* createProxyConnection returns a socket (a direct one for no proxy, which
\* has no listeners)
DialogConnected(d) ==
    /\ dialogs[d].pc = "connect"
    /\ dialogs' = [dialogs EXCEPT ![d].pc = "dialog", ![d].socket = "open",
                                  ![d].timer = 0]
    /\ UNCHANGED <<proxies, currentIndex, now, pHeld, pDecs, pUse, pResets>>
    /\ UNCHANGED <<vvars, bvars, kvars, rvars, svars>>

\* RCPT TO is answered: markProxySuccess, then cleanup
DialogRcptAnswered(d, response) ==
    /\ dialogs[d].pc = "dialog"
    /\ dialogs[d].socket = "open"
    /\ proxies' = markProxySuccess(proxies, dialogs[d].proxy)
    /\ dialogs' = [dialogs EXCEPT ![d].pc = "cleanup", ![d].ok = TRUE,
                                  ![d].ret = RcptReturn(Wire(response))]
    /\ UNCHANGED <<currentIndex, now, pHeld, pDecs, pUse, pResets>>
    /\ UNCHANGED <<vvars, bvars, kvars, rvars, svars>>

\* a greeting, HELO or MAIL FROM is refused, a read times out or a write
\* fails: the catch block marks the proxy, then cleanup
DialogFails(d) ==
    /\ dialogs[d].pc = "dialog"
    /\ proxies' = markProxyFailure(proxies, dialogs[d].proxy)
    /\ dialogs' = [dialogs EXCEPT ![d].pc = "cleanup", ![d].ok = FALSE]
    /\ Paired(d)
    /\ UNCHANGED <<currentIndex, now, pUse, pResets>>
    /\ UNCHANGED <<vvars, bvars, kvars, rvars, svars>>

\* cleanup: QUIT, socket.end(), socket.destroy() for a socket not yet
\* destroyed; then the return, or the rest of the catch block
DialogCleanup(d) ==
    /\ dialogs[d].pc = "cleanup"
    /\ LET dlg == [dialogs[d] EXCEPT !.socket = IF @ = "open" THEN "closing" ELSE @]
       IN  dialogs' = [dialogs EXCEPT ![d] =
                         IF dlg.ok THEN [dlg EXCEPT !.pc = "done"]
                         ELSE AfterFailure(dlg, now)]
    /\ UNCHANGED <<proxies, currentIndex, now, pHeld, pDecs, pUse, pResets>>
    /\ UNCHANGED <<vvars, bvars, kvars, rvars, svars>>

\* socket.on('error'): markProxyFailure; the socket is destroyed
SocketError(d) ==
    /\ dialogs[d].socket = "open"
    /\ proxies' = markProxyFailure(proxies, dialogs[d].proxy)
    /\ dialogs' = [dialogs EXCEPT ![d].socket = "closing"]
    /\ Paired(d)
    /\ UNCHANGED <<currentIndex, now, pUse, pResets>>
    /\ UNCHANGED <<vvars, bvars, kvars, rvars, svars>>

\* socket.on('timeout'): socket.destroy()
SocketTimeout(d) ==
    /\ dialogs[d].socket = "open"
    /\ dialogs' = [dialogs EXCEPT ![d].socket = "closing"]
    /\ UNCHANGED <<proxies, currentIndex, now, pHeld, pDecs, pUse, pResets>>
    /\ UNCHANGED <<vvars, bvars, kvars, rvars, svars>>

\* socket.on('close'): releaseProxy
SocketClose(d) ==
    /\ dialogs[d].socket = "closing"
    /\ proxies' = releaseProxy(proxies, dialogs[d].proxy)
    /\ dialogs' = [dialogs EXCEPT ![d].socket = "closed"]
    /\ Paired(d)
    /\ UNCHANGED <<currentIndex, now, pUse, pResets>>
    /\ UNCHANGED <<vvars, bvars, kvars, rvars, svars>>

\* the instants at which a timer ends: a delay, a SOCKS timeout, a cooldown
Deadlines ==
    {dialogs[d].timer : d \in {e \in Dialogs : dialogs[e].pc \in {"sleep", "connect"}}}
    \cup {proxies[p].lastUsed + COOLDOWN_PERIOD : p \in 1..Len(proxies)}

\* time passes, up to the next such instant, while some call of verifyMailbox
\* is still to return; a timer that is over has fired
Tick ==
    /\ \E d \in Dialogs : dialogs[d].pc # "done"
    /\ \A d \in Dialogs :
          dialogs[d].pc \in {"sleep", "connect"} => dialogs[d].timer > now
    /\ LET later == {t \in Deadlines : t > now}
           next == CHOOSE t \in later : \A u \in later : t <= u
       IN  /\ later # {}
           /\ next <= StartTime + MaxSeconds * 1000
           /\ now' = next
    /\ UNCHANGED <<proxies, currentIndex, dialogs, pHeld, pDecs, pUse, pResets>>
    /\ UNCHANGED <<vvars, bvars, kvars, rvars, svars>>

PNext ==
    \/ \E d \in Dialogs : DialogCall(d)
    \/ \E d \in Dialogs : DialogWakes(d)
    \/ \E d \in Dialogs : DialogConnectFails(d)
    \/ \E d \in Dialogs : DialogConnected(d)
    \/ \E d \in Dialogs, response \in DialogResponses : DialogRcptAnswered(d, response)
    \/ \E d \in Dialogs : DialogFails(d)
    \/ \E d \in Dialogs : DialogCleanup(d)
    \/ \E d \in Dialogs : SocketError(d)
    \/ \E d \in Dialogs : SocketTimeout(d)
    \/ \E d \in Dialogs : SocketClose(d)
    \/ Tick

----------------------------------------------------------------------------
(* validators/smtp.js: how the answer to RCPT TO is read *)

ResponseTails ==
    {<< >>, <<" ">>, <<" ", "O", "K">>, <<"-", "O", "K">>,
     <<" ", "5", ".", "1", ".", "1", " ", "n", "o">>}

RcptResponses ==
    {Response(d1, d2, d3, tail) :
        d1 \in 0..9, d2 \in 0..9, d3 \in 0..9, tail \in ResponseTails}

RIdle == rpc = "off" /\ rResponse = Response(0, 0, 0, << >>) /\ rReturn = NoReturn

RInit == rpc = "rcpt" /\ rResponse \in RcptResponses /\ rReturn = NoReturn

\* const rcptResponse = await readResponse(...); ...; return {...}
RcptAnswered ==
    /\ rpc = "rcpt"
    /\ rReturn' = RcptReturn(Wire(rResponse))
    /\ rpc' = "done"
    /\ UNCHANGED rResponse
    /\ UNCHANGED <<vvars, bvars, kvars, pvars, svars>>

RNext == RcptAnswered

----------------------------------------------------------------------------
(* validators/smtp.js: the SMTP dialog of verifyMailbox, line by line *)

\* a line of text, character by character
Text(code, tail) == Wire(Response(code[1], code[2], code[3], tail))

Line220 == Text(<<2, 2, 0>>, <<" ", "m", "x">>)

Line221 == Text(<<2, 2, 1>>, <<" ", "b", "y", "e">>)

Line250 == Text(<<2, 5, 0>>, <<" ", "O", "K">>)

Line250End == Text(<<2, 5, 0>>, <<" ", "E", "N", "D">>)

Line421 == Text(<<4, 2, 1>>, <<" ", "t", "r", "y", " ", "l", "a", "t", "e", "r">>)

Line502 == Text(<<5, 0, 2>>, <<" ", "n", "o">>)

Line550 == Text(<<5, 5, 0>>, <<" ", "5", ".", "1", ".", "1">>)

LineStartTLS == Text(<<2, 5, 0>>, <<"-", "S", "T", "A", "R", "T", "T", "L", "S">>)

\* the continuation lines of a reply to EHLO, in the order a server lists them
Continuations ==
    <<Text(<<2, 5, 0>>, <<"-", "m", "x">>),
      LineStartTLS,
      Text(<<2, 5, 0>>, <<"-", "S", "I", "Z", "E">>)>>

\* what a server answers to a command, as the lines of one reply; no line at
\* all when it stays silent after the connection is made
ServerReplies(command) ==
    CASE command = "connect" -> {<<Line220>>, <<Line421>>, << >>}
      [] command = "EHLO" ->
            {<<Line250>>, <<Line502>>}
            \cup {SubSeq(Continuations, 1, n) \o <<Line250End>> :
                    n \in 1..MaxContinuations}
      [] command = "HELO" -> {<<Line250>>, <<Line502>>}
      [] command = "MAIL FROM" -> {<<Line250>>, <<Line421>>}
      [] command = "RCPT TO" -> {<<Line250>>, <<Line421>>, <<Line550>>}
      [] OTHER -> {<<Line221>>}

IsDigit(c) == \E n \in 1..10 : DigitChars[n] = c

\* line.match(/^[0-9]{3}(?:[ -].*)?$/)
IsReplyLine(line) ==
    /\ Len(line) >= 3
    /\ \A i \in 1..3 : IsDigit(line[i])
    /\ Len(line) = 3 \/ line[4] \in {" ", "-"}

\* handleData for the lines received: the first one that matches, << >> when
\* none does and the wait goes on
handleData(lines) ==
    LET hits == {i \in 1..Len(lines) : IsReplyLine(lines[i])}
    IN  IF hits = {} THEN << >>
        ELSE lines[CHOOSE i \in hits : \A j \in hits : i <= j]

\* String.prototype.startsWith for a three-digit code
StartsWith(line, code) == Len(line) >= 3 /\ SubSeq(line, 1, 3) = code

Code220 == <<"2", "2", "0">>

Code250 == <<"2", "5", "0">>

\* variant: MAIL FROM is not looked at
MailFromAccepted_Any(line) == TRUE

\* fromResponse.startsWith('250')
MailFromAccepted(line) == StartsWith(line, Code250)

\* verifyMailboxWithRetry is called for the outlook.com profile
Wrapped(config) == config.provider = "outlook.com"

\* const maxRetries = config.provider === 'outlook.com' ? 5 : MAX_RETRIES
WrapperMaxRetries(config) ==
    IF config.provider = "outlook.com" THEN 5 ELSE SMTP_MAX_RETRIES

\* a command sent (or the connection made), what the server sent back for it,
\* and the line readResponse resolved with (<< >>: none yet)
Entry(command, reply) == [command |-> command, reply |-> reply, read |-> << >>]

SIdle ==
    /\ sPc = "off" /\ sConfig = NoConfig /\ sRetry = 0 /\ sWrap = 0
    /\ sSocket = "none" /\ sWire = << >> /\ sLog = << >> /\ sOk = FALSE
    /\ sRet = NoReturn /\ sDials = 0 /\ sSleeps = << >>

\* the call, for a domain of any provider
SInit ==
    /\ sPc = "attempt"
    /\ sConfig \in {getProviderConfig(p) : p \in ProviderNames}
    /\ sRetry = 0 /\ sWrap = 0
    /\ sSocket = "none" /\ sWire = << >> /\ sLog = << >> /\ sOk = FALSE
    /\ sRet = NoReturn /\ sDials = 0 /\ sSleeps = << >>

\* verifyMailbox returns value: to validateEmail, or to the loop of
\* verifyMailboxWithRetry, which returns a completed dialog, sleeps
\* RETRY_DELAY * 2^retryCount unless this was its last turn, and goes round
SmtpReturns(value) ==
    IF ~Wrapped(sConfig) \/ value.success
    THEN /\ sPc' = "done"
         /\ sRet' = value
         /\ UNCHANGED <<sWrap, sSleeps>>
    ELSE IF sWrap < WrapperMaxRetries(sConfig) - 1
    THEN /\ sPc' = "between"
         /\ sSleeps' = Append(sSleeps, SMTP_RETRY_DELAY * (2 ^ sWrap))
         /\ UNCHANGED <<sWrap, sRet>>
    ELSE /\ sPc' = "done"
         /\ sRet' = VerifyFailed
         /\ sWrap' = sWrap + 1
         /\ UNCHANGED sSleeps

\* the end of the catch block after cleanup: retryCount++, the delay
\* RETRY_DELAY * retryCount, or the loop ends and verifyMailbox returns
SmtpAfterFailure(retryCount) ==
    LET n == retryCount + 1
    IN  /\ sRetry' = n
        /\ IF n < SMTP_MAX_RETRIES
           THEN /\ sPc' = "sleep"
                /\ sSleeps' = Append(sSleeps, SMTP_RETRY_DELAY * n)
                /\ UNCHANGED <<sWrap, sRet>>
           ELSE SmtpReturns(VerifyFailed)

\* the delay slept by verifyMailboxWithRetry is over: retryCount++ of its for
\* loop, and verifyMailbox is called again (let retryCount = 0)
SmtpWrapperNext ==
    /\ sPc = "between"
    /\ sWrap' = sWrap + 1
    /\ sRetry' = 0
    /\ sPc' = "attempt"
    /\ UNCHANGED <<sConfig, sSocket, sWire, sLog, sOk, sRet, sDials, sSleeps>>
    /\ UNCHANGED <<vvars, bvars, kvars, pvars, rvars>>

\* a turn of the while loop of verifyMailbox starts: at the call, or when the
\* delay after a failed turn is over
SmtpTurn == sPc \in {"attempt", "sleep"}

\* getNextProxy returns null: 'No available proxies'; nothing is dialled, and
\* cleanup finds no socket or one already destroyed
SmtpNoProxy ==
    /\ SmtpTurn
    /\ sLog' = << >>
    /\ sOk' = FALSE
    /\ SmtpAfterFailure(sRetry)
    /\ UNCHANGED <<sConfig, sSocket, sWire, sDials>>
    /\ UNCHANGED <<vvars, bvars, kvars, pvars, rvars>>

\* createProxyConnection is called and throws
SmtpConnectFails ==
    /\ SmtpTurn
    /\ sLog' = << >>
    /\ sOk' = FALSE
    /\ sDials' = sDials + 1
    /\ SmtpAfterFailure(sRetry)
    /\ UNCHANGED <<sConfig, sSocket, sWire>>
    /\ UNCHANGED <<vvars, bvars, kvars, pvars, rvars>>

\* createProxyConnection returns a socket; the server sends its greeting, or
\* nothing; readResponse waits for it
SmtpConnected ==
    /\ SmtpTurn
    /\ sDials' = sDials + 1
    /\ sSocket' = "open"
    /\ sOk' = FALSE
    /\ \E greeting \in ServerReplies("connect") :
          /\ sWire' = greeting
          /\ sLog' = <<Entry("connect", greeting)>>
    /\ sPc' = "greet"
    /\ UNCHANGED <<sConfig, sRetry, sWrap, sRet, sSleeps>>
    /\ UNCHANGED <<vvars, bvars, kvars, pvars, rvars>>

\* writeCommand(socket, command), then readResponse: the server answers the
\* command it receives, after whatever it sent before
SmtpSend(log, rest, command, pc) ==
    /\ \E reply \in ServerReplies(command) :
          /\ sLog' = Append(log, Entry(command, reply))
          /\ sWire' = rest \o reply
    /\ sPc' = pc

\* socket.end(); socket.destroy(): what the server sent is not read any more
SmtpDestroyed(log) ==
    /\ sSocket' = "destroyed"
    /\ sWire' = << >>
    /\ sLog' = log

\* readResponse resolves with line and verifyMailbox goes on from where it
\* waited; rest is what the socket has yet to emit
SmtpResolved(line, log, rest) ==
    CASE sPc = "greet" ->
            IF StartsWith(line, Code220)
            THEN /\ SmtpSend(log, rest, "EHLO", "ehlo")
                 /\ UNCHANGED <<sRetry, sWrap, sSocket, sOk, sRet, sSleeps>>
            ELSE /\ SmtpSend(log, rest, "QUIT", "quit")
                 /\ UNCHANGED <<sRetry, sWrap, sSocket, sOk, sRet, sSleeps>>
      [] sPc = "ehlo" ->
            IF StartsWith(line, Code250)
            THEN /\ SmtpSend(log, rest, "MAIL FROM", "mail")
                 /\ UNCHANGED <<sRetry, sWrap, sSocket, sOk, sRet, sSleeps>>
            ELSE /\ SmtpSend(log, rest, "HELO", "helo")
                 /\ UNCHANGED <<sRetry, sWrap, sSocket, sOk, sRet, sSleeps>>
      [] sPc = "helo" ->
            IF StartsWith(line, Code250)
            THEN /\ SmtpSend(log, rest, "MAIL FROM", "mail")
                 /\ UNCHANGED <<sRetry, sWrap, sSocket, sOk, sRet, sSleeps>>
            ELSE /\ SmtpSend(log, rest, "QUIT", "quit")
                 /\ UNCHANGED <<sRetry, sWrap, sSocket, sOk, sRet, sSleeps>>
      [] sPc = "mail" ->
            IF MailFromAccepted(line)
            THEN /\ SmtpSend(log, rest, "RCPT TO", "rcpt")
                 /\ UNCHANGED <<sRetry, sWrap, sSocket, sOk, sRet, sSleeps>>
            ELSE /\ SmtpSend(log, rest, "QUIT", "quit")
                 /\ UNCHANGED <<sRetry, sWrap, sSocket, sOk, sRet, sSleeps>>
      [] sPc = "rcpt" ->
            /\ sOk' = TRUE
            /\ sRet' = RcptReturn(line)
            /\ SmtpSend(log, rest, "QUIT", "quit")
            /\ UNCHANGED <<sRetry, sWrap, sSocket, sSleeps>>
      [] sPc = "quit" ->
            /\ SmtpDestroyed(log)
            /\ UNCHANGED sOk
            /\ IF sOk THEN SmtpReturns(sRet) /\ UNCHANGED sRetry
               ELSE SmtpAfterFailure(sRetry)

Reading == {"greet", "ehlo", "helo", "mail", "rcpt", "quit"}

\* the socket emits 'data' with one or more of the lines in flight: handleData
\* resolves with the first line that matches and stops listening, so the other
\* lines of the same event are not seen again
SmtpData ==
    /\ sPc \in Reading
    /\ sSocket = "open"
    /\ sWire # << >>
    /\ \E k \in 1..Len(sWire) :
          LET line == handleData(SubSeq(sWire, 1, k))
              rest == SubSeq(sWire, k + 1, Len(sWire))
          IN  IF line = << >>
              THEN /\ sWire' = rest
                   /\ UNCHANGED <<sPc, sRetry, sWrap, sSocket, sLog, sOk, sRet,
                                  sSleeps>>
              ELSE SmtpResolved(line,
                                [sLog EXCEPT ![Len(sLog)].read = line], rest)
    /\ UNCHANGED <<sConfig, sDials>>
    /\ UNCHANGED <<vvars, bvars, kvars, pvars, rvars>>

\* the connection breaks: the socket is destroyed under the dialog
SmtpConnectionLost ==
    /\ sPc \in Reading \ {"quit"}
    /\ sSocket = "open"
    /\ sSocket' = "lost"
    /\ sWire' = << >>
    /\ UNCHANGED <<sPc, sConfig, sRetry, sWrap, sLog, sOk, sRet, sDials, sSleeps>>
    /\ UNCHANGED <<vvars, bvars, kvars, pvars, rvars>>

\* variant: readResponse sets no timer
SmtpReadTimeout_NoTimer ==
    /\ sPc \in {}
    /\ UNCHANGED vars

\* readResponse rejects with 'Response timeout': nothing came in time. In
\* cleanup the error is swallowed; elsewhere the catch block runs, and cleanup
\* sends QUIT on a socket that is not destroyed
SmtpReadTimeout ==
    /\ sPc \in Reading
    /\ sWire = << >>
    /\ IF sPc = "quit"
       THEN /\ SmtpDestroyed(sLog)
            /\ UNCHANGED sOk
            /\ IF sOk THEN SmtpReturns(sRet) /\ UNCHANGED sRetry
               ELSE SmtpAfterFailure(sRetry)
       ELSE IF sSocket = "open"
       THEN /\ SmtpSend(sLog, sWire, "QUIT", "quit")
            /\ UNCHANGED <<sRetry, sWrap, sSocket, sOk, sRet, sSleeps>>
       ELSE /\ SmtpAfterFailure(sRetry)
            /\ UNCHANGED <<sSocket, sWire, sLog, sOk>>
    /\ UNCHANGED <<sConfig, sDials>>
    /\ UNCHANGED <<vvars, bvars, kvars, pvars, rvars>>

SNext ==
    \/ SmtpWrapperNext
    \/ SmtpNoProxy
    \/ SmtpConnectFails
    \/ SmtpConnected
    \/ SmtpData
    \/ SmtpConnectionLost
    \/ SmtpReadTimeout

----------------------------------------------------------------------------
(* The specifications *)

Init == VInit /\ BIdle /\ KIdle /\ PIdle /\ RIdle /\ SIdle

VNext ==
    \/ \E e \in Inputs : Call(e)
    \/ StageFormat
    \/ StageLength
    \/ StageDNS
    \/ StageMX
    \/ StageSPF
    \/ StageProvider
    \/ StageSMTP
    \/ StageFinal

Next == VNext

Spec == Init /\ [][Next]_vars

VIdle ==
    /\ vpc = "off" /\ email = Str(<< >>) /\ result = NewResult(Str(<< >>))
    /\ mxRecords = << >> /\ mxIdx = 1 /\ providerConfig = NoConfig
    /\ smtpSuccess = FALSE /\ lastError = "null" /\ trace = << >>
    /\ verifyLog = << >>
    /\ serverLog = << >>
    /\ mxLog = << >>
    /\ twin = NoTwin

BatchInit == VIdle /\ BInit /\ KIdle /\ PIdle /\ RIdle /\ SIdle

BatchSpec == BatchInit /\ [][BNext]_vars

BulkInit == VIdle /\ BIdle /\ KInit /\ PIdle /\ RIdle /\ SIdle

BulkSpec == BulkInit /\ [][KNext]_vars

PoolInit == VIdle /\ BIdle /\ KIdle /\ PInit /\ RIdle /\ SIdle

PoolSpec == PoolInit /\ [][PNext]_vars

RcptInit == VIdle /\ BIdle /\ KIdle /\ PIdle /\ RInit /\ SIdle

RcptSpec == RcptInit /\ [][RNext]_vars

SmtpInit == VIdle /\ BIdle /\ KIdle /\ PIdle /\ RIdle /\ SInit

SmtpSpec == SmtpInit /\ [][SNext]_vars

\* the same with the event loop running: a timer that was set fires, data
\* that has arrived is delivered, a connection attempt settles
SmtpFairSpec == SmtpInit /\ [][SNext]_vars /\ WF_vars(SNext)

----------------------------------------------------------------------------
(* Claims about validateEmail, checked under Spec *)

Returned == vpc = "done"

\* the verifier answered RCPT positively on some MX contacted
PositiveRcpt ==
    \E i \in 1..Len(verifyLog) : verifyLog[i].success /\ verifyLog[i].mailboxExists

\* the verifier reported a catch-all domain
CatchAllReported ==
    \E i \in 1..Len(verifyLog) :
        verifyLog[i].success /\ Truthy(Get(verifyLog[i], "isCatchAll"))

\* C1: in every result, valid = true implies that checks.format, checks.dns,
\* checks.mx, checks.smtp and checks.mailbox are all true, whatever the MX
\* records and the per-MX outcomes were.
C1_ValidImpliesChecks ==
    result.valid =>
        /\ result.checks.format
        /\ result.checks.dns
        /\ result.checks.mx
        /\ result.checks.smtp
        /\ result.checks.mailbox

\* C1 witness: a valid result returned after a transport failure on the first MX
C1_Witness ==
    /\ Returned
    /\ result.valid
    /\ Len(verifyLog) = 2
    /\ ~verifyLog[1].success

\* C2 (as claimed): the result is valid exactly when some MX answered RCPT
\* positively and the domain is not a rejected catch-all; and a positive RCPT
\* on a domain that is not catch-all gives valid = true, reason "Email is
\* valid", checks.mailbox = true and checks.catchAll = false.
C2_ValidIffPositiveRcpt ==
    Returned =>
        /\ result.valid <=>
              (PositiveRcpt /\ (~CatchAllReported \/ ~providerConfig.rejectCatchAll))
        /\ (PositiveRcpt /\ ~CatchAllReported) =>
              /\ result.valid
              /\ result.reason = "Email is valid"
              /\ result.checks.mailbox
              /\ result.checks.catchAll = "false"

\* the part of C2 the code does satisfy: everything but the value of catchAll
C2_ExceptCatchAllValue ==
    Returned =>
        /\ result.valid <=>
              (PositiveRcpt /\ (~CatchAllReported \/ ~providerConfig.rejectCatchAll))
        /\ (PositiveRcpt /\ ~CatchAllReported) =>
              /\ result.valid
              /\ result.reason = "Email is valid"
              /\ result.checks.mailbox
              /\ ~Truthy(result.checks.catchAll)

\* C3: for every input, a string or not, a result with checks.format = false
\* has every other check false, valid = false and the reason "Invalid email
\* format".
C3_FormatFalseAllFalse ==
    (Returned /\ ~result.checks.format) =>
        /\ ~result.checks.dns
        /\ ~result.checks.mx
        /\ ~result.checks.spf
        /\ ~result.checks.smtp
        /\ ~result.checks.mailbox
        /\ result.checks.catchAll = "false"
        /\ ~result.valid
        /\ result.reason = "Invalid email format"

\* C3 witness: the result returned for an argument that is not a string
C3_Witness ==
    /\ Returned
    /\ ~email.isString
    /\ ~result.checks.format

StageOrder == <<"format", "length", "dns", "mx", "spf", "provider">>

LaterChecksFalse ==
    /\ ~result.checks.spf
    /\ ~result.checks.smtp
    /\ ~result.checks.mailbox
    /\ result.checks.catchAll = "false"
    /\ ~result.valid

\* C4: the stages run in the order format, length, DNS, MX, SPF, provider,
\* SMTP; a stage runs only if every gating stage before it passed; and when a
\* gating stage fails the result returned carries that stage's reason and the
\* checks of all later stages are false.
C4_StagesInOrder ==
    /\ \A i \in 1..Len(trace) :
          trace[i] = IF i <= Len(StageOrder) THEN StageOrder[i] ELSE "smtp"
    /\ Len(trace) >= 2 => result.checks.format
    /\ Len(trace) >= 3 => LengthReason(email) = ""
    /\ Len(trace) >= 4 => result.checks.dns
    /\ Len(trace) >= 5 => result.checks.mx
    /\ Returned =>
          LET last == trace[Len(trace)]
          IN  /\ last \in {"format", "length", "dns", "mx", "smtp"}
              /\ last = "format" =>
                    /\ ~result.checks.format
                    /\ result.reason = "Invalid email format"
                    /\ ~result.checks.dns /\ ~result.checks.mx /\ LaterChecksFalse
              /\ last = "length" =>
                    /\ result.reason \in {"Local part exceeds maximum length",
                                          "Domain exceeds maximum length"}
                    /\ ~result.checks.dns /\ ~result.checks.mx /\ LaterChecksFalse
              /\ last = "dns" =>
                    /\ ~result.checks.dns
                    /\ result.reason = "Domain does not exist"
                    /\ result.checks.format
                    /\ ~result.checks.mx /\ LaterChecksFalse
              /\ last = "mx" =>
                    /\ ~result.checks.mx
                    /\ result.reason = "No mail servers found for domain"
                    /\ result.checks.format /\ result.checks.dns
                    /\ LaterChecksFalse
              /\ last = "smtp" => Len(trace) = Len(StageOrder) + Len(verifyLog)

\* C4 witness: the result returned when the DNS stage fails
C4_Witness ==
    /\ Returned
    /\ trace = <<"format", "length", "dns">>
    /\ result.reason = "Domain does not exist"

----------------------------------------------------------------------------
(* Claims about POST /validate/batch, checked under BatchSpec *)

\* C5: the array the batch operation returns is as long as the input, and its
\* i-th entry is the outcome of the i-th e-mail's validation: that e-mail's
\* result when its validation fulfilled, a placeholder when it rejected.
C5_BatchRowForRow ==
    bpc = "done" =>
        /\ Len(bResults) = Len(emails)
        /\ \A i \in 1..Len(emails) :
              /\ Settled(bOutcome[i])
              /\ bResults[i] = SettledEntry(bOutcome[i])
              /\ bOutcome[i].status = "fulfilled" => bResults[i].email = emails[i]

\* C5 witness: a response for six e-mails, the second of which failed
C5_Witness ==
    /\ bpc = "done"
    /\ Len(emails) = BATCH_SIZE + 1
    /\ bOutcome[2].status = "rejected"
    /\ bOutcome[BATCH_SIZE + 1].status = "fulfilled"

\* an entry pushed in place of a result: it names no e-mail
IsPlaceholder(entry) == "email" \notin DOMAIN entry

\* the batch half of C7, which the code satisfies: an entry is a placeholder
\* exactly when that e-mail's own validation rejected
C7_BatchHalf ==
    \A i \in 1..Len(bResults) :
        /\ IsPlaceholder(bResults[i]) <=> bOutcome[i].status = "rejected"
        /\ bOutcome[i].status = "fulfilled" => bResults[i] = bOutcome[i].value

----------------------------------------------------------------------------
(* Claims about POST /validate/bulk, checked under BulkSpec *)

\* the numbers of the records that carry an e-mail, in file order
EmailRows == SelectSeq([i \in 1..Len(rows) |-> i], LAMBDA i : rows[i])

LastEvent == kStream[Len(kStream)]

Completed == kpc = "done" /\ LastEvent.type = "complete"

\* C6 (as claimed): every record that carries an e-mail is validated and has
\* its entry, once and in file order, in the results of the complete event.
C6_EveryEmailRowReported ==
    Completed =>
        /\ Len(LastEvent.results) = Len(EmailRows)
        /\ \A p \in 1..Len(EmailRows) :
              /\ kItems[EmailRows[p]].status # "none"
              /\ ~IsPlaceholder(LastEvent.results[p]) =>
                    LastEvent.results[p].email = EmailRows[p]

Terminal(event) == event.type \in {"complete", "error"}

\* C8: what a bulk request with a file writes is progress events followed by
\* one terminal event, complete or error, written when the response is ended;
\* nothing follows the terminal event, and the handler finishes only after
\* writing it.
C8_StreamShape ==
    /\ \A i \in 1..(Len(kStream) - 1) : kStream[i].type = "progress"
    /\ kEnded <=> (kStream # << >> /\ Terminal(LastEvent))
    /\ kpc = "done" => kEnded
    /\ kEnded => kpc = "done"

\* C8 witness: a finished response of progress events and then an error
C8_Witness ==
    /\ kpc = "done"
    /\ Len(kStream) >= 2
    /\ LastEvent.type = "error"

ProgressLeq(a, b) == a.num * b.den <= b.num * a.den

ProgressIndexes == {i \in 1..Len(kStream) : kStream[i].type = "progress"}

\* C9: the progress values of successive progress events never decrease and
\* never exceed 100, whether the batch was fulfilled or rejected.
C9_ProgressMonotone ==
    \A i \in ProgressIndexes :
        /\ kStream[i].progress.den > 0
        /\ kStream[i].progress.num <= 100 * kStream[i].progress.den
        /\ \A j \in ProgressIndexes :
              i < j => ProgressLeq(kStream[i].progress, kStream[j].progress)

\* C9 witness: two progress events, the first written for a rejected batch
C9_Witness ==
    /\ Len(kStream) >= 2
    /\ kStream[1].type = "progress"
    /\ kStream[2].type = "progress"
    /\ IsPlaceholder(kStream[1].results[1])
    /\ ~IsPlaceholder(kStream[2].results[1])

\* C10 (as claimed): once the client has disconnected no further batch is
\* started.
C10_NoBatchAfterDisconnect == kLateStarts = 0
----------------------------------------------------------------------------
(* Claims about the proxy pool and verifyMailbox, checked under PoolSpec *)

\* the acquires of proxy p not yet paired with a release or mark_failure
Outstanding(p) ==
    Cardinality({d \in Dialogs : dialogs[d].proxy = p /\ pHeld[d]})

\* C11 (as claimed): under any interleaving of dialogs, and across a global
\* reset, each proxy's connections counter equals the number of acquires of
\* that proxy not yet paired with a release or mark_failure.
C11_ConnectionsCountOutstanding ==
    \A p \in 1..Len(proxies) : proxies[p].connections = Outstanding(p)

\* an attempt that acquired a proxy and is over, its socket closed
AttemptOver(d) ==
    /\ dialogs[d].pc \in {"sleep", "done"}
    /\ dialogs[d].proxy # 0
    /\ dialogs[d].socket # "closing"

\* C12 (as claimed): a proxy acquired by a dial attempt is paired with exactly
\* one release or mark_failure: never more than one is called for it, and one
\* has been called when the attempt is over, whichever way it ended.
C12_PairedExactlyOnce ==
    \A d \in Dialogs :
        /\ pDecs[d] <= 1
        /\ AttemptOver(d) => pDecs[d] = 1

\* C13: in every reachable state of the pool every proxy has failures >= 0
\* and connections >= 0.
C13_CountersNonNegative ==
    \A p \in 1..Len(proxies) :
        proxies[p].failures >= 0 /\ proxies[p].connections >= 0

\* C13 witness: a proxy released a second time with its counter already at 0
C13_Witness ==
    \E d \in Dialogs :
        /\ pDecs[d] >= 2
        /\ proxies[dialogs[d].proxy].connections = 0

\* the step of call d in which getNextProxy runs
AcquireStep(d) ==
    /\ dialogs[d].pc \in {"idle", "sleep"}
    /\ \/ dialogs'[d].pc # dialogs[d].pc
       \/ dialogs'[d].retryCount # dialogs[d].retryCount

\* eligibility as the claim words it
ClaimedEligible(entry, t) ==
    /\ entry.failures < 3
    /\ entry.connections < 3
    /\ t - entry.lastUsed >= 30000

\* the first eligible entry met in one cycle of the pool from the cursor, 0
\* when there is none
FirstEligible(pool, index, t) ==
    LET n == Len(pool)
        order == [k \in 1..n |-> ((index + k - 1) % n) + 1]
        hits == {k \in 1..n : ClaimedEligible(pool[order[k]], t)}
    IN  IF hits = {} THEN 0
        ELSE order[CHOOSE k \in hits : \A j \in hits : k <= j]

\* C14: outside a global reset, getNextProxy returns the first entry eligible
\* at the time of the call in one cycle from the cursor, or none; the entry
\* returned gets lastUsed = now and connections + 1 and nothing else in the
\* pool changes.
C14_FirstEligibleFromCursor ==
    [][\A d \in Dialogs :
          (AcquireStep(d) /\ pResets' = pResets) =>
              LET p == dialogs'[d].proxy
              IN  /\ p = FirstEligible(proxies, currentIndex, now)
                  /\ p # 0 =>
                        /\ proxies' = [proxies EXCEPT ![p].lastUsed = now,
                                                      ![p].connections = @ + 1]
                        /\ currentIndex' = p % Len(proxies)
                  /\ p = 0 => proxies' = proxies /\ currentIndex' = currentIndex]_vars

\* C14 witness: the second call is handed proxy 2, the entry at the cursor,
\* while proxy 1 is held by the first
C14_Witness ==
    /\ Len(proxies) = 2
    /\ dialogs[1].proxy = 1 /\ pHeld[1]
    /\ dialogs[2].pc = "connect" /\ dialogs[2].proxy = 2
    /\ proxies[2].lastUsed = now /\ proxies[2].connections = 1

\* C15: getNextProxy never returns a proxy whose failures are at MAX_FAILURES
\* or more when returned; when every proxy has reached MAX_FAILURES the acquire
\* resets the pool (every failures = 0) and returns a proxy, or returns none;
\* and the pool is reset only when no entry is eligible and all have reached
\* MAX_FAILURES.
C15_NeverOverBudget ==
    [][\A d \in Dialogs :
          AcquireStep(d) =>
              LET p == dialogs'[d].proxy
                  n == Len(proxies)
                  reset == pResets' # pResets
                  allOver == \A q \in 1..n : proxies[q].failures >= 3
              IN  /\ p # 0 => proxies'[p].failures < 3
                  /\ (n > 0 /\ allOver) =>
                        \/ p = 0
                        \/ reset /\ \A q \in 1..n : proxies'[q].failures = 0
                  /\ reset =>
                        /\ allOver
                        /\ \A q \in 1..n : ~ClaimedEligible(proxies[q], now)]_vars

\* C15 witness: a proxy handed out by an acquire that reset the pool
C15_Witness ==
    \E d \in Dialogs :
        /\ pResets > 0
        /\ dialogs[d].pc = "connect"
        /\ pUse[dialogs[d].proxy].afterReset
        /\ pUse[dialogs[d].proxy].at = now

\* C16 (as claimed): with no proxies loaded a verification dials the MX host
\* directly, so a call that has returned had opened a connection.
C16_EmptyPoolDialsDirect ==
    \A d \in Dialogs :
        (Len(proxies) = 0 /\ dialogs[d].pc = "done") => dialogs[d].socket # "none"

\* C17 (as claimed): two acquires that return the same proxy are at least
\* COOLDOWN apart, also when the pool was reset between them.
C17_CooldownAlways ==
    \A p \in 1..Len(proxies) :
        pUse[p].again => pUse[p].gap >= COOLDOWN_PERIOD

\* C17 (amended): two acquires that return the same proxy with no global reset
\* between them are at least COOLDOWN apart.
C17_CooldownUnlessReset ==
    \A p \in 1..Len(proxies) :
        (pUse[p].again /\ ~pUse[p].afterReset) => pUse[p].gap >= COOLDOWN_PERIOD

\* C17 witness: a proxy handed out a second time, the pool never reset
C17_Witness ==
    \E p \in 1..Len(proxies) :
        pUse[p].again /\ ~pUse[p].afterReset /\ pResets = 0
----------------------------------------------------------------------------
(* More claims about validateEmail, checked under Spec *)

\* RCPT for the target was accepted by a server that accepts any local part
CatchAllAccepted ==
    \E i \in 1..Len(verifyLog) :
        serverLog[i] /\ verifyLog[i].success /\ verifyLog[i].code \div 100 = 2

\* C18 (as claimed): when RCPT is accepted for the target, the server is a
\* catch-all and the profile rejects catch-alls, the result is valid = false
\* with the reason "Catch-all domain detected" and checks.catchAll = true.
C18_CatchAllRejected ==
    (Returned /\ CatchAllAccepted /\ providerConfig.rejectCatchAll) =>
        /\ ~result.valid
        /\ result.reason = "Catch-all domain detected"
        /\ result.checks.catchAll = "true"

\* every MX of the domain was contacted and answered RCPT with 550
AllRejected550 ==
    /\ mxRecords # << >>
    /\ Len(verifyLog) = Len(mxRecords)
    /\ \A i \in 1..Len(verifyLog) : verifyLog[i].success /\ verifyLog[i].code = 550

\* C19: when RCPT is answered 550 on every MX the result is valid = false,
\* reason "Failed to verify mailbox", checks.mx = true, checks.smtp = true and
\* checks.mailbox = false.
C19_RejectedEverywhere ==
    (Returned /\ AllRejected550) =>
        /\ ~result.valid
        /\ result.reason = "Failed to verify mailbox"
        /\ result.checks.mx
        /\ result.checks.smtp
        /\ ~result.checks.mailbox

\* C19 witness: the result returned after two MX hosts answered 550
C19_Witness ==
    /\ Returned
    /\ AllRejected550
    /\ Len(verifyLog) = 2

----------------------------------------------------------------------------
(* Claims about the answer to RCPT TO, checked under RcptSpec *)

\* the code of a response as a number
CodeNumber(response) ==
    response.code[1] * 100 + response.code[2] * 10 + response.code[3]

\* what follows the code and its separator on the response line
Remainder(response) ==
    IF response.tail = << >> THEN << >> ELSE Tail(response.tail)

\* C20: for every three-digit code a completed dialog reports mailboxExists =
\* true exactly when the code is 2xx, 451 or 452, and returns the numeric code
\* as code and the remainder of the response line as message.
C20_RcptInterpretation ==
    rpc = "done" =>
        /\ rReturn.success
        /\ rReturn.mailboxExists <=>
              \/ rResponse.code[1] = 2
              \/ CodeNumber(rResponse) \in {451, 452}
        /\ rReturn.code = CodeNumber(rResponse)
        /\ rReturn.message = Remainder(rResponse)

\* C20 witness: the return for "452 5.1.1 no"
C20_Witness ==
    /\ rpc = "done"
    /\ rResponse.code = <<4, 5, 2>>
    /\ rReturn.mailboxExists
    /\ rReturn.code = 452
    /\ Len(rReturn.message) = 8

----------------------------------------------------------------------------
(* Claims about the boundaries of validateEmail, checked under Spec *)

\* the stage was run
StageRan(stage) == \E i \in 1..Len(trace) : trace[i] = stage

\* an address well-formed but for the length of its local part
LocalOfLength(n) == Str(Rep(n, "L") \o ShortDomain)

\* C23 (as claimed): an address whose local part is exactly 64 characters
\* long, and otherwise well-formed, is accepted by the format and length
\* stages, while one whose local part is 65 characters long is rejected.
C23_LocalPart64Accepted ==
    Returned =>
        /\ email = LocalOfLength(64) => (result.checks.format /\ StageRan("dns"))
        /\ email = LocalOfLength(65) => ~StageRan("dns")

\* C30 (as claimed): a 5xx answer to RCPT on one MX ends the loop: no MX is
\* contacted after it.
C30_RejectShortCircuits ==
    \A i \in 1..Len(verifyLog) :
        (verifyLog[i].success /\ verifyLog[i].code \div 100 = 5) =>
            i = Len(verifyLog)

----------------------------------------------------------------------------
(* Claims about the SPF stage, checked under Spec *)

\* the checks other than checks.spf are the same in both results
SameOtherChecks(a, b) ==
    /\ a.format = b.format
    /\ a.dns = b.dns
    /\ a.mx = b.mx
    /\ a.smtp = b.smtp
    /\ a.mailbox = b.mailbox
    /\ a.catchAll = b.catchAll

TwinRan(stage) == \E i \in 1..Len(twin.trace) : twin.trace[i] = stage

\* C24: two runs of validateEmail that differ only in the outcome of the SPF
\* lookup return the same valid, the same reason and the same checks other
\* than checks.spf, and the SMTP stage is run in both.
C24_SpfNeverGates ==
    (Returned /\ StageRan("spf")) =>
        /\ twin.pc = "done"
        /\ twin.result.valid = result.valid
        /\ twin.result.reason = result.reason
        /\ SameOtherChecks(twin.result.checks, result.checks)
        /\ StageRan("smtp")
        /\ TwinRan("smtp")

\* C24 witness: one run found an SPF record, the other's lookup failed, and
\* both returned a valid result
C24_Witness ==
    /\ Returned
    /\ result.checks.spf
    /\ twin.result.details.spfRecord = "null"
    /\ result.valid
    /\ twin.result.valid

----------------------------------------------------------------------------
(* Claims about the SMTP dialog, checked under SmtpSpec *)

Code421 == <<"4", "2", "1">>

\* the entries of the log of the current connection
Entries == 1..Len(sLog)

\* readResponse has resolved for entry i
WasRead(i) == sLog[i].read # << >>

\* C21 (as claimed): when a line 421 is read in answer to the greeting or to
\* a command, RCPT TO included, the attempt reports failure: it is not a
\* completed dialog, and a call that returns after it returns success =
\* false.
C21_Code421IsTransportError ==
    (\E i \in Entries :
        sLog[i].command # "QUIT" /\ StartsWith(sLog[i].read, Code421)) =>
        /\ ~sOk
        /\ sPc = "done" => ~sRet.success

\* C22 (as claimed): the line readResponse resolves with is the terminating
\* line of the reply to the command it was called for, continuation lines
\* having been consumed.
C22_ReadsTerminatingLine ==
    \A i \in Entries :
        WasRead(i) =>
            /\ sLog[i].reply # << >>
            /\ sLog[i].read = sLog[i].reply[Len(sLog[i].reply)]

\* entry i is the command, and the line read for it carries the code
Answered(i, command, code) ==
    /\ i \in Entries
    /\ sLog[i].command = command
    /\ StartsWith(sLog[i].read, code)

\* entry i was read and the line does not carry the code
Refused(i, code) == WasRead(i) /\ ~StartsWith(sLog[i].read, code)

AdvertisedStartTLS ==
    \E i \in Entries :
        /\ sLog[i].command = "EHLO"
        /\ \E l \in 1..Len(sLog[i].reply) : sLog[i].reply[l] = LineStartTLS

\* C27 (as claimed): with requireTLS and a server that advertises STARTTLS,
\* MAIL FROM is sent only after STARTTLS was sent and answered 220 and EHLO
\* was sent again.
C27_StartTLSBeforeMailFrom ==
    (sConfig.requireTLS /\ AdvertisedStartTLS) =>
        \A j \in Entries :
            sLog[j].command = "MAIL FROM" =>
                \E i \in 1..(j - 1) :
                    /\ Answered(i, "STARTTLS", Code220)
                    /\ \E e \in (i + 1)..(j - 1) : sLog[e].command = "EHLO"

\* C28 (as claimed): for a profile without customValidation at most
\* retryAttempts dial attempts are made, the k-th delay is RETRY_DELAY * k,
\* and no delay follows the last attempt.
C28_LinearRetryBudget ==
    ~sConfig.customValidation =>
        /\ sDials <= sConfig.retryAttempts
        /\ \A k \in 1..Len(sSleeps) : sSleeps[k] = SMTP_RETRY_DELAY * k
        /\ sPc = "done" =>
              Len(sSleeps) = IF sRet.success THEN sRetry ELSE sRetry - 1

\* C29 (as claimed): for a profile with customValidation the delays grow as
\* RETRY_DELAY * 2^attempt (attempts counted from 0 or from 1) and at most
\* max(retryAttempts, 5) dial attempts are made.
C29_ExponentialRetryBudget ==
    sConfig.customValidation =>
        /\ sDials <= Max(sConfig.retryAttempts, 5)
        /\ \/ \A k \in 1..Len(sSleeps) :
                 sSleeps[k] = SMTP_RETRY_DELAY * (2 ^ (k - 1))
           \/ \A k \in 1..Len(sSleeps) :
                 sSleeps[k] = SMTP_RETRY_DELAY * (2 ^ k)

----------------------------------------------------------------------------
(* More claims about the proxy pool, checked under PoolSpec *)

\* C25 (as claimed): when an attempt is over, that is when verifyMailbox has
\* returned or waits to try again, the socket opened for the attempt is
\* destroyed and the proxy slot taken for it is released.
C25_ClosedOnEveryExit ==
    \A d \in Dialogs :
        dialogs[d].pc \in {"done", "sleep"} =>
            /\ dialogs[d].socket # "open"
            /\ ~pHeld[d]

----------------------------------------------------------------------------
(* Claims about the loop over the MX records, checked under Spec *)

\* the loop over mxRecords is over
LoopOver == vpc \in {"final", "done"}

\* the i-th call of the verifier completed the dialog and RCPT TO was answered
\* positively
PositiveAt(i) == verifyLog[i].success /\ verifyLog[i].mailboxExists

\* C31: for one address the MX hosts are tried one at a time in ascending
\* priority order: every call of the verifier has returned before the next is
\* made, the i-th call goes to the i-th record of the sorted list and no
\* record is contacted twice; a transport or protocol failure on an MX that
\* is not the last is followed by a call for the next MX; and a positive
\* answer to RCPT TO ends the loop, so that no later MX is contacted.
C31_MxOneByOneInOrder ==
    /\ Len(mxLog) = Len(verifyLog)
    /\ Len(mxLog) <= Len(mxRecords)
    /\ \A i \in 1..Len(mxLog) : mxLog[i] = mxRecords[i]
    /\ \A i \in 1..Len(mxLog), j \in 1..Len(mxLog) :
          i < j => /\ mxLog[i].priority <= mxLog[j].priority
                   /\ mxLog[i].exchange # mxLog[j].exchange
    /\ \A i \in 1..Len(verifyLog) :
          /\ (LoopOver /\ ~verifyLog[i].success /\ i < Len(mxRecords)) =>
                Len(mxLog) > i
          /\ PositiveAt(i) => (i = Len(mxLog) /\ LoopOver)

\* C31 witness: DNS lists the less preferred host first; the preferred one is
\* contacted first and fails after its retries, the other answers RCPT TO
\* positively and the result is returned
C31_Witness ==
    /\ Returned
    /\ Len(mxLog) = 2
    /\ mxLog[1].exchange = 2
    /\ mxLog[1].priority < mxLog[2].priority
    /\ ~verifyLog[1].success
    /\ PositiveAt(2)

\* C31, second witness: the first host answers positively and the second,
\* though advertised, is never contacted
C31_WitnessStop ==
    /\ Returned
    /\ Len(mxRecords) = 2
    /\ Len(mxLog) = 1
    /\ PositiveAt(1)

----------------------------------------------------------------------------
(* Claims about the pacing of the batches, checked under BulkSpec *)

\* the rows whose validation has been started and has not settled
InFlight == {r \in 1..Len(rows) : kItems[r].status = "pending"}

InBatch(r) == \E k \in 1..Len(kBatch) : kBatch[k] = r

\* the batches started so far: one progress event is written per batch that
\* is over
BatchesStarted ==
    Cardinality(ProgressIndexes) + (IF kpc = "await" THEN 1 ELSE 0)

\* the parser has yet to yield a record with an e-mail
EmailRowsLeft == \E i \in kNext..Len(rows) : rows[i]

\* C32 (as claimed), for the bulk request: at most BATCH_SIZE = 5 validations
\* are in flight at any moment; the validations of a batch start only after
\* every validation of the batch before has settled and BATCH_DELAY has then
\* been slept; and no delay is slept after the last batch.
C32_BatchesPaced ==
    /\ Cardinality(InFlight) <= BATCH_SIZE
    /\ \A r \in InFlight : kpc = "await" /\ InBatch(r)
    /\ BatchesStarted <= kSlept + 1
    /\ kpc = "sleep" => EmailRowsLeft

\* the pending promises of the batch request
BatchInFlight == {k \in 1..Len(bItems) : ~Settled(bItems[k])}

\* the batch half of C32, which the code satisfies (checked under BatchSpec):
\* at most five validations in flight, none left when the handler goes on,
\* and a delay only when e-mails remain
C32_BatchHalf ==
    /\ Cardinality(BatchInFlight) <= BATCH_SIZE
    /\ BatchInFlight # {} => bpc = "await"
    /\ bpc = "sleep" => bI + BATCH_SIZE < Len(emails)

----------------------------------------------------------------------------
(* Claims about the failure counters and the slots, checked under PoolSpec *)

\* the dial attempts call d has begun so far: retryCount counts the failed
\* ones, and one more is under way or has completed the dialog
AttemptsBegun(d) ==
    LET dlg == dialogs[d]
    IN  IF dlg.pc \in {"off", "idle"} THEN 0
        ELSE IF dlg.pc = "sleep" \/ (dlg.pc = "done" /\ ~dlg.ok) THEN dlg.retryCount
        ELSE dlg.retryCount + 1

RECURSIVE AttemptsOfFirst(_)
AttemptsOfFirst(n) == IF n = 0 THEN 0 ELSE AttemptsOfFirst(n - 1) + AttemptsBegun(n)

\* all the dial attempts begun so far, by any call, through any proxy or none
AttemptsSoFar == AttemptsOfFirst(MaxDialogs)

\* C33 (as claimed): a failed dial attempt through a proxy adds exactly 1 to
\* that proxy's failures counter, so the counter never exceeds the number of
\* attempts made, and a proxy is out of rotation (failures >= MAX_FAILURES)
\* only after three failed attempts.
C33_OneFailurePerAttempt ==
    \A p \in 1..Len(proxies) : proxies[p].failures <= AttemptsSoFar

\* call d is not under way: it was never made, or it has returned and its
\* socket, if it had one, has closed
Finished(d) ==
    /\ dialogs[d].pc \in {"idle", "done"}
    /\ dialogs[d].socket \notin {"open", "closing"}

\* the calls holding a slot of proxy p: acquired, and neither released nor
\* marked as failed since
Holders(p) == {d \in Dialogs : pHeld[d] /\ dialogs[d].proxy = p}

\* C34: no proxy slot is leaked: once every call of verifyMailbox has
\* returned and every socket has closed, the connections counter of every
\* proxy is 0; and at any moment a proxy counts no more connections than
\* there are calls still holding a slot of it.
C34_NoSlotLeaked ==
    /\ \A p \in 1..Len(proxies) :
          proxies[p].connections <= Cardinality(Holders(p))
    /\ (\A d \in Dialogs : Finished(d)) =>
          \A p \in 1..Len(proxies) : proxies[p].connections = 0

\* C34 witness: two calls are over, one with RCPT TO answered through a proxy
\* whose socket has closed, the other after three failed attempts
C34_Witness ==
    /\ \A d \in Dialogs : Finished(d) /\ dialogs[d].pc = "done"
    /\ \E d \in Dialogs :
          dialogs[d].ok /\ dialogs[d].proxy # 0 /\ dialogs[d].socket = "closed"
    /\ \E d \in Dialogs : ~dialogs[d].ok /\ dialogs[d].retryCount = SMTP_MAX_RETRIES

----------------------------------------------------------------------------
(* Claims about the events of the bulk stream, checked under BulkSpec *)

\* the results carried by the progress events among the first n events of the
\* stream, put end to end in the order the events were written
RECURSIVE ProgressResults(_)
ProgressResults(n) ==
    IF n = 0 THEN << >>
    ELSE ProgressResults(n - 1)
         \o (IF kStream[n].type = "progress" THEN kStream[n].results ELSE << >>)

\* C35: in a bulk stream that ends with 'complete', the results of the
\* complete event are the results of all the progress events before it, put
\* end to end in the order of emission: every result is reported in exactly
\* one progress event before completion.
C35_CompleteIsConcatenation ==
    \A i \in 1..Len(kStream) :
        kStream[i].type = "complete" =>
            kStream[i].results = ProgressResults(i - 1)

\* C35 witness: a stream completed after two batches, the first of which was
\* reported with results and the second with placeholders
C35_Witness ==
    /\ Completed
    /\ Cardinality(ProgressIndexes) = 2
    /\ Len(LastEvent.results) = BATCH_SIZE + 1
    /\ ~IsPlaceholder(LastEvent.results[1])
    /\ IsPlaceholder(LastEvent.results[BATCH_SIZE + 1])

----------------------------------------------------------------------------
(* Claims about the termination of verifyMailbox, checked under SmtpFairSpec *)

\* what a call can return: the result of a completed dialog, or the failure
\* object
SmtpReturnOk ==
    IF sRet.success
    THEN /\ sOk
         /\ \E i \in Entries :
               /\ sLog[i].command = "RCPT TO"
               /\ WasRead(i)
               /\ sRet = RcptReturn(sLog[i].read)
    ELSE sRet = VerifyFailed

\* the bounds on one call: the while loop makes at most MAX_RETRIES turns,
\* each with at most one dial (the wrapper repeats the call)
SmtpBounded ==
    /\ sRetry <= SMTP_MAX_RETRIES
    /\ sDials <= SMTP_MAX_RETRIES * (IF Wrapped(sConfig) THEN sWrap + 1 ELSE 1)
    /\ sPc \in Reading => sRetry < SMTP_MAX_RETRIES
    /\ sPc = "done" => SmtpReturnOk

\* C36: verifyMailbox always terminates and never throws: whatever the server
\* and the proxy do (no reply, a wrong reply, a failed connect, no proxy) it
\* makes at most MAX_RETRIES = 3 dial attempts, every awaited reply arrives or
\* times out, and it returns the result of a completed dialog or the failure
\* object.
C36_AlwaysReturns == []SmtpBounded /\ <>(sPc = "done")

\* C36 witness: a direct call that dialled three times, met a server that
\* never sent a line, and returned the failure object
C36_Witness ==
    /\ sPc = "done"
    /\ ~Wrapped(sConfig)
    /\ sDials = SMTP_MAX_RETRIES
    /\ sRet = VerifyFailed
    /\ sLog # << >>
    /\ sLog[1].reply = << >>
    /\ ~WasRead(1)
====
